---- MODULE Spec2Model ----
(***************************************************************************)
(* Model of the market-data analytics core: the market condition           *)
(* classifier and the inflection point detector (src/unnamed/part_011),    *)
(* the metric validators (src/unnamed/part_014, src/src/lib/validation.ts) *)
(* and the spreadsheet row extractor (src/unnamed/part_014).               *)
(*                                                                         *)
(* JavaScript numbers are modelled as exact rationals [n |-> _, d |-> _]   *)
(* with d > 0; n > 0, d = 0 stands for +Infinity (x / 0 with x > 0) and    *)
(* n = 0, d = 0 for NaN.                                                   *)
(* An optional value (a field that may be undefined) is the empty tuple    *)
(* or a one-element tuple.                                                 *)
(***************************************************************************)
EXTENDS Integers, Sequences, FiniteSets, TLC

VARIABLES
    metrics,          \* classifyMarket: the MarketMetrics argument
    classification,   \* classifyMarket: the returned MarketClassification

    data,             \* detectInflectionPoints: the DataPoint[] argument
    inflections,      \* detectInflectionPoints: the returned InflectionPoint[]

    valArgs,          \* validateMetric / validateMetricValue: (metricTypeId, value)
    validation,       \* what the extractor's validateMetric returned
    libValidation,    \* what the library's validateMetricValue returned

    workbook,         \* extractFromFile: the parsed file (first sheet's cells)
    clock,            \* extractFromFile: the year and month new Date() gives
    result,           \* extractFromFile: the returned ExtractionResult

    dateValue,        \* parseDate: the cell value argument
    resolved,         \* parseDate: what it returned
    resolvedAgain,    \* parseDate: what it returned for its own result

    headerRow,        \* mapHeaders: the headers argument
    headerMapping,    \* mapHeaders: what it returned

    numericCell,      \* parseNumericValue: the cell value argument
    numeric,          \* parseNumericValue: what it returned

    seasonalArgs,     \* compareToSeasonal / getSeasonalContext: (metric, month, actualChange)
    comparison,       \* what compareToSeasonal returned
    seasonalContext,  \* what getSeasonalContext returned

    insightCtx,       \* generateEnhancedInsights: the InsightContext argument and the UTC offset of the runtime
    insightBundle,    \* generateEnhancedInsights: the returned EnhancedInsight[]

    laterClock,       \* extractFromFile called again: the year and month new Date() gives then
    resultAgain,      \* extractFromFile called again on the same file: the returned ExtractionResult

    badge,            \* getMarketClassification: the returned MarketClassification, for the same context

    metricsTable,     \* the metrics table: one record per stored row
    aiInsights,       \* the ai_insights table: the cached AI insights
    upserted,         \* the upload and manual-entry actions: the rows of the last upsert sent to the metrics table
    saveResponse,     \* the upload and manual-entry actions: what the last request returned
    generations       \* generateAndCacheInsights: one record per background call, in the order the calls were started

classifierVars == <<metrics, classification>>

detectorVars == <<data, inflections>>

validatorVars == <<valArgs, validation, libValidation>>

extractorVars == <<workbook, clock, result>>

resolverVars == <<dateValue, resolved, resolvedAgain>>

mapperVars == <<headerRow, headerMapping>>

numericVars == <<numericCell, numeric>>

seasonalVars == <<seasonalArgs, comparison, seasonalContext>>

insightVars == <<insightCtx, insightBundle>>

repeatVars == <<laterClock, resultAgain>>

badgeVars == <<badge>>

storeVars == <<metricsTable, aiInsights, upserted, saveResponse, generations>>

vars ==
    <<classifierVars, detectorVars, validatorVars, extractorVars,
      resolverVars,
      mapperVars,
      numericVars,
      seasonalVars,
      insightVars,
      repeatVars,
      badgeVars,
      storeVars>>

----------------------------------------------------------------------------
(* Numbers *)

R(n, d) == [n |-> n, d |-> d]

Whole(n) == R(n, 1)

NaN == R(0, 0)

IsNaN(a) == a.n = 0 /\ a.d = 0

\* a < b on numbers (false when either is NaN); an integer-part comparison
\* first keeps the products small
Lt(a, b) ==
    IF IsNaN(a) \/ IsNaN(b) THEN FALSE
    ELSE IF b.d = 0 THEN a.d # 0
    ELSE IF a.d = 0 THEN FALSE
    ELSE LET ia == a.n \div a.d
             ib == b.n \div b.d
         IN  \/ ia < ib
             \/ ia = ib /\ (a.n % a.d) * b.d < (b.n % b.d) * a.d

Le(a, b) == ~IsNaN(a) /\ ~IsNaN(b) /\ ~Lt(b, a)

None == <<>>

Some(v) == <<v>>

NotCalled == [called |-> FALSE]

----------------------------------------------------------------------------
(* Market condition classifier: src/unnamed/part_011 lines 167-403 *)

SignalOrder == <<"monthsOfSupply", "daysOnMarket", "listToSaleRatio", "priceYoYChange">>

Signals == {SignalOrder[i] : i \in 1..Len(SignalOrder)}

THRESHOLDS ==
    [monthsOfSupply  |-> [sellers |-> [max |-> Whole(4)], buyers |-> [min |-> Whole(6)]],
     daysOnMarket    |-> [sellers |-> [max |-> Whole(30)], buyers |-> [min |-> Whole(60)]],
     listToSaleRatio |-> [sellers |-> [min |-> R(100, 100)], buyers |-> [max |-> R(97, 100)]],
     priceYoYChange  |-> [sellers |-> [min |-> Whole(5)], buyers |-> [max |-> Whole(0)]]]

WEIGHTS ==
    [monthsOfSupply |-> 3, daysOnMarket |-> 2, listToSaleRatio |-> 2, priceYoYChange |-> 1]

FactorLabel ==
    [monthsOfSupply |-> "Months of Supply", daysOnMarket |-> "Days on Market",
     listToSaleRatio |-> "List-to-Sale Ratio", priceYoYChange |-> "Price YoY Change"]

\* the description is the template chosen (metric, side) filled with the value
Describe(metricName, side, value) == <<metricName, side, value>>

classifyMetric_strictSwapped(metricName, value) ==
    LET threshold == THRESHOLDS[metricName]
        cond == CASE metricName = "monthsOfSupply" ->
                       IF Le(value, threshold.sellers.max) THEN "sellers"
                       ELSE IF Le(threshold.buyers.min, value) THEN "buyers"
                       ELSE "balanced"
                  [] metricName = "daysOnMarket" ->
                       IF Le(value, threshold.sellers.max) THEN "sellers"
                       ELSE IF Le(threshold.buyers.min, value) THEN "buyers"
                       ELSE "balanced"
                  [] metricName = "listToSaleRatio" ->
                       IF Lt(threshold.sellers.min, value) THEN "sellers"
                       ELSE IF Le(value, threshold.buyers.max) THEN "buyers"
                       ELSE "balanced"
                  [] metricName = "priceYoYChange" ->
                       IF Lt(threshold.sellers.min, value) THEN "sellers"
                       ELSE IF Lt(value, threshold.buyers.max) THEN "buyers"
                       ELSE "balanced"
                  [] OTHER -> "balanced"
    IN  [condition |-> cond, description |-> Describe(metricName, cond, value)]

classifyMetric(metricName, value) ==
    LET threshold == THRESHOLDS[metricName]
        cond == CASE metricName = "monthsOfSupply" ->
                       IF Lt(value, threshold.sellers.max) THEN "sellers"
                       ELSE IF Lt(threshold.buyers.min, value) THEN "buyers"
                       ELSE "balanced"
                  [] metricName = "daysOnMarket" ->
                       IF Lt(value, threshold.sellers.max) THEN "sellers"
                       ELSE IF Lt(threshold.buyers.min, value) THEN "buyers"
                       ELSE "balanced"
                  [] metricName = "listToSaleRatio" ->
                       IF Le(threshold.sellers.min, value) THEN "sellers"
                       ELSE IF Lt(value, threshold.buyers.max) THEN "buyers"
                       ELSE "balanced"
                  [] metricName = "priceYoYChange" ->
                       IF Le(threshold.sellers.min, value) THEN "sellers"
                       ELSE IF Le(value, threshold.buyers.max) THEN "buyers"
                       ELSE "balanced"
                  [] OTHER -> "balanced"
    IN  [condition |-> cond, description |-> Describe(metricName, cond, value)]

\* one `if (metrics.X !== undefined) { ... }` block of classifyMarket
addSignal_weightOnlyWhenSided(acc, metricName, value) ==
    LET c == classifyMetric(metricName, value)
        weight == WEIGHTS[metricName]
    IN  [factors |-> Append(acc.factors,
                            [metric |-> FactorLabel[metricName], value |-> value,
                             indicator |-> c.condition, weight |-> weight,
                             description |-> c.description]),
         sellersScore |-> acc.sellersScore + (IF c.condition = "sellers" THEN weight ELSE 0),
         buyersScore |-> acc.buyersScore + (IF c.condition = "buyers" THEN weight ELSE 0),
         totalWeight |-> acc.totalWeight + (IF c.condition = "balanced" THEN 0 ELSE weight)]

addSignal(acc, metricName, value) ==
    LET c == classifyMetric(metricName, value)
        weight == WEIGHTS[metricName]
    IN  [factors |-> Append(acc.factors,
                            [metric |-> FactorLabel[metricName], value |-> value,
                             indicator |-> c.condition, weight |-> weight,
                             description |-> c.description]),
         sellersScore |-> acc.sellersScore + (IF c.condition = "sellers" THEN weight ELSE 0),
         buyersScore |-> acc.buyersScore + (IF c.condition = "buyers" THEN weight ELSE 0),
         totalWeight |-> acc.totalWeight + weight]

\* the four blocks in source order, from signal i on
RECURSIVE addSignals(_, _, _)
addSignals(m, i, acc) ==
    IF i > Len(SignalOrder) THEN acc
    ELSE LET k == SignalOrder[i]
         IN  addSignals(m, i + 1, IF m[k] # None THEN addSignal(acc, k, m[k][1]) ELSE acc)

\* the returned record when no signal was supplied
noSignalResult_fallsThrough(factors) ==
    [called |-> TRUE, condition |-> "balanced", confidence |-> "high", factors |-> factors]

noSignalResult(factors) ==
    [called |-> TRUE, condition |-> "balanced", confidence |-> "low", factors |-> <<>>]

\* "Determine overall condition and confidence", totalWeight > 0
overallCondition_strict(sellersScore, buyersScore, totalWeight) ==
    LET sellersRatio == R(sellersScore, totalWeight)
        buyersRatio == R(buyersScore, totalWeight)
        maxRatio == IF Lt(sellersRatio, buyersRatio) THEN buyersRatio ELSE sellersRatio
    IN  IF Lt(R(6, 10), sellersRatio)
        THEN [condition |-> "sellers",
              confidence |-> IF Lt(R(8, 10), sellersRatio) THEN "high" ELSE "medium"]
        ELSE IF Lt(R(6, 10), buyersRatio)
        THEN [condition |-> "buyers",
              confidence |-> IF Lt(R(8, 10), buyersRatio) THEN "high" ELSE "medium"]
        ELSE [condition |-> "balanced",
              confidence |-> IF Lt(maxRatio, R(4, 10)) THEN "high"
                             ELSE IF Lt(maxRatio, R(5, 10)) THEN "medium" ELSE "low"]

overallCondition(sellersScore, buyersScore, totalWeight) ==
    LET sellersRatio == R(sellersScore, totalWeight)
        buyersRatio == R(buyersScore, totalWeight)
        maxRatio == IF Lt(sellersRatio, buyersRatio) THEN buyersRatio ELSE sellersRatio
    IN  IF Le(R(6, 10), sellersRatio)
        THEN [condition |-> "sellers",
              confidence |-> IF Le(R(8, 10), sellersRatio) THEN "high" ELSE "medium"]
        ELSE IF Le(R(6, 10), buyersRatio)
        THEN [condition |-> "buyers",
              confidence |-> IF Le(R(8, 10), buyersRatio) THEN "high" ELSE "medium"]
        ELSE [condition |-> "balanced",
              confidence |-> IF Lt(maxRatio, R(4, 10)) THEN "high"
                             ELSE IF Lt(maxRatio, R(5, 10)) THEN "medium" ELSE "low"]

classifyMarket(m) ==
    LET acc == addSignals(m, 1, [factors |-> <<>>, sellersScore |-> 0,
                                 buyersScore |-> 0, totalWeight |-> 0])
    IN  IF acc.totalWeight = 0 THEN noSignalResult(acc.factors)
        ELSE LET o == overallCondition(acc.sellersScore, acc.buyersScore, acc.totalWeight)
             IN  [called |-> TRUE, condition |-> o.condition,
                  confidence |-> o.confidence, factors |-> acc.factors]

\* the values each signal is drawn from: both sides of, and on, each threshold
SignalValues ==
    [monthsOfSupply  |-> {Whole(2), R(39, 10), Whole(4), Whole(6), Whole(8)},
     daysOnMarket    |-> {Whole(20), Whole(30), Whole(45), Whole(60), Whole(75)},
     listToSaleRatio |-> {R(96, 100), R(97, 100), R(99, 100), R(100, 100), R(102, 100)},
     priceYoYChange  |-> {Whole(-2), Whole(0), Whole(3), Whole(5), Whole(8)}]

MetricsInputs ==
    {m \in [Signals -> UNION {{None} \cup {Some(v) : v \in SignalValues[k]} : k \in Signals}] :
        \A k \in Signals : m[k] = None \/ m[k][1] \in SignalValues[k]}

ClassifierIdle == metrics = [k \in Signals |-> None] /\ classification = NotCalled

DetectorIdle == data = <<>> /\ inflections = NotCalled

ValidatorIdle ==
    /\ valArgs = [metricTypeId |-> "", value |-> NaN]
    /\ validation = NotCalled
    /\ libValidation = NotCalled

ExtractorIdle ==
    /\ workbook = [hasSheet |-> FALSE, rows |-> <<>>]
    /\ clock = [year |-> 0, month |-> 0]
    /\ result = NotCalled

ResolverIdle ==
    dateValue = None /\ resolved = NotCalled /\ resolvedAgain = NotCalled

MapperIdle ==
    headerRow = <<>> /\ headerMapping = NotCalled

NumericIdle ==
    numericCell = None /\ numeric = NotCalled

SeasonalIdle ==
    seasonalArgs = None /\ comparison = NotCalled /\ seasonalContext = NotCalled

InsightIdle ==
    insightCtx = None /\ insightBundle = NotCalled

RepeatIdle ==
    laterClock = None /\ resultAgain = NotCalled

BadgeIdle ==
    badge = NotCalled

StoreIdle ==
    metricsTable = {} /\ aiInsights = {} /\ upserted = <<>> /\ saveResponse = NotCalled /\ generations = <<>>

InitClassify ==
    /\ metrics \in MetricsInputs
    /\ classification = NotCalled
    /\ DetectorIdle
    /\ ValidatorIdle
    /\ ExtractorIdle
    /\ ResolverIdle
    /\ MapperIdle
    /\ NumericIdle
    /\ SeasonalIdle
    /\ InsightIdle
    /\ RepeatIdle
    /\ BadgeIdle
    /\ StoreIdle

ClassifyMarket ==
    /\ classification = NotCalled
    /\ classification' = classifyMarket(metrics)
    /\ UNCHANGED <<metrics, detectorVars, validatorVars, extractorVars, resolverVars, mapperVars, numericVars, seasonalVars, insightVars, repeatVars, badgeVars, storeVars>>

NextClassify == ClassifyMarket

SpecClassify == InitClassify /\ [][NextClassify]_vars

----------------------------------------------------------------------------
(* Inflection point detector: src/unnamed/part_011 lines 1-129 *)

MAX_INFLECTION_POINTS == 5

MIN_MAGNITUDE_THRESHOLD == 5

MIN_DATA_POINTS == 5

MIN_MOMENTUM_POINTS == 6

Infinity == R(1, 0)

Sub(a, b) == R(a.n * b.d - b.n * a.d, a.d * b.d)

Abs(a) == R(IF a.n < 0 THEN -a.n ELSE a.n, a.d)

Min(a, b) == IF Lt(b, a) THEN b ELSE a

\* (num / den) * 100 for num > 0: +Infinity when den is 0
Percent(num, den) ==
    IF den = 0 THEN Infinity
    ELSE IF den < 0 THEN R(-100 * num, -den)
    ELSE R(100 * num, den)

\* Array.prototype.sort is stable: x goes after every element not later than it
insertByDate(sorted, x) ==
    LET k == Cardinality({i \in 1..Len(sorted) : sorted[i].date <= x.date})
    IN  SubSeq(sorted, 1, k) \o <<x>> \o SubSeq(sorted, k + 1, Len(sorted))

RECURSIVE sortByDate(_)
sortByDate(s) ==
    IF s = <<>> THEN <<>>
    ELSE insertByDate(sortByDate(SubSeq(s, 1, Len(s) - 1)), s[Len(s)])

\* (a, b) => b.magnitude - a.magnitude; Infinity - Infinity is NaN, taken as 0
insertByMagnitude(sorted, x) ==
    LET k == Cardinality({i \in 1..Len(sorted) : ~Lt(sorted[i].magnitude, x.magnitude)})
    IN  SubSeq(sorted, 1, k) \o <<x>> \o SubSeq(sorted, k + 1, Len(sorted))

RECURSIVE sortByMagnitude(_)
sortByMagnitude(s) ==
    IF s = <<>> THEN <<>>
    ELSE insertByMagnitude(sortByMagnitude(SubSeq(s, 1, Len(s) - 1)), s[Len(s)])

\* the body of the peak/trough loop at (1-based) index i of the sorted series
extremumAt_typesSwapped(sorted, i) ==
    LET prev == sorted[i - 1].value
        curr == sorted[i].value
        next == sorted[i + 1].value
        peakMagnitude == Min(Percent(curr - prev, prev), Percent(curr - next, next))
        troughMagnitude == Min(Percent(prev - curr, curr), Percent(next - curr, curr))
    IN  (IF curr > prev /\ curr > next /\ Le(Whole(MIN_MAGNITUDE_THRESHOLD), peakMagnitude)
         THEN <<[date |-> sorted[i].date, value |-> curr, type |-> "trough",
                 magnitude |-> peakMagnitude]>>
         ELSE <<>>)
        \o
        (IF curr < prev /\ curr < next /\ Le(Whole(MIN_MAGNITUDE_THRESHOLD), troughMagnitude)
         THEN <<[date |-> sorted[i].date, value |-> curr, type |-> "peak",
                 magnitude |-> troughMagnitude]>>
         ELSE <<>>)

extremumAt_noThreshold(sorted, i) ==
    LET prev == sorted[i - 1].value
        curr == sorted[i].value
        next == sorted[i + 1].value
        peakMagnitude == Min(Percent(curr - prev, prev), Percent(curr - next, next))
        troughMagnitude == Min(Percent(prev - curr, curr), Percent(next - curr, curr))
    IN  (IF curr > prev /\ curr > next
         THEN <<[date |-> sorted[i].date, value |-> curr, type |-> "peak",
                 magnitude |-> peakMagnitude]>>
         ELSE <<>>)
        \o
        (IF curr < prev /\ curr < next
         THEN <<[date |-> sorted[i].date, value |-> curr, type |-> "trough",
                 magnitude |-> troughMagnitude]>>
         ELSE <<>>)

extremumAt(sorted, i) ==
    LET prev == sorted[i - 1].value
        curr == sorted[i].value
        next == sorted[i + 1].value
        peakMagnitude == Min(Percent(curr - prev, prev), Percent(curr - next, next))
        troughMagnitude == Min(Percent(prev - curr, curr), Percent(next - curr, curr))
    IN  (IF curr > prev /\ curr > next /\ Le(Whole(MIN_MAGNITUDE_THRESHOLD), peakMagnitude)
         THEN <<[date |-> sorted[i].date, value |-> curr, type |-> "peak",
                 magnitude |-> peakMagnitude]>>
         ELSE <<>>)
        \o
        (IF curr < prev /\ curr < next /\ Le(Whole(MIN_MAGNITUDE_THRESHOLD), troughMagnitude)
         THEN <<[date |-> sorted[i].date, value |-> curr, type |-> "trough",
                 magnitude |-> troughMagnitude]>>
         ELSE <<>>)

\* for (let i = 1; i < sorted.length - 1; i++), 0-based; here from 1-based i on
RECURSIVE localExtrema(_, _)
localExtrema(sorted, i) ==
    IF i > Len(sorted) - 1 THEN <<>>
    ELSE extremumAt(sorted, i) \o localExtrema(sorted, i + 1)

calculateMomentum(startValue, endValue) ==
    IF startValue = 0 THEN Whole(0)
    ELSE Percent(endValue - startValue, startValue)

\* the body of the momentum loop at (1-based) index i
momentumAt(d, i) ==
    LET prevMomentum == calculateMomentum(d[i - 3].value, d[i - 1].value)
        currMomentum == calculateMomentum(d[i].value, d[i + 2].value)
        momentumShift == Sub(currMomentum, prevMomentum)
    IN  IF Le(Whole(MIN_MAGNITUDE_THRESHOLD), Abs(momentumShift))
        THEN <<[date |-> d[i].date, value |-> d[i].value,
                type |-> IF momentumShift.n > 0 THEN "acceleration" ELSE "deceleration",
                magnitude |-> Abs(momentumShift)]>>
        ELSE <<>>

\* for (let i = 3; i < data.length - 2; i++), 0-based; here from 1-based i on
RECURSIVE momentumLoop(_, _)
momentumLoop(d, i) ==
    IF i > Len(d) - 2 THEN <<>>
    ELSE momentumAt(d, i) \o momentumLoop(d, i + 1)

detectMomentumChanges(d) ==
    IF Len(d) < MIN_MOMENTUM_POINTS THEN <<>> ELSE momentumLoop(d, 4)

\* the merged candidates of both detectors, extrema first
candidates(sorted) == localExtrema(sorted, 2) \o detectMomentumChanges(sorted)

\* .sort((a, b) => b.magnitude - a.magnitude).slice(0, MAX_INFLECTION_POINTS)
topByMagnitude_sliceUnsorted(c) ==
    SubSeq(c, 1, IF Len(c) < MAX_INFLECTION_POINTS THEN Len(c) ELSE MAX_INFLECTION_POINTS)

topByMagnitude(c) ==
    LET s == sortByMagnitude(c)
    IN  SubSeq(s, 1, IF Len(s) < MAX_INFLECTION_POINTS THEN Len(s) ELSE MAX_INFLECTION_POINTS)

\* if (data.length < 5) return []
tooFewPoints_three(d) == Len(d) < 3

tooFewPoints(d) == Len(d) < MIN_DATA_POINTS

detectInflectionPoints(d) ==
    IF tooFewPoints(d) THEN <<>>
    ELSE sortByDate(topByMagnitude(candidates(sortByDate(d))))

\* Inputs: series of up to MaxPoints values, dated in one of three layouts
MaxPoints == 7

SeriesValues == {0, 100, 105, 130}

DateLayouts == {"ascending", "descending", "pairs"}

DateOf(layout, n, i) ==
    CASE layout = "ascending" -> i
      [] layout = "descending" -> n + 1 - i
      [] layout = "pairs" -> (i + 1) \div 2

SeriesOf(layout, vs) ==
    [i \in 1..Len(vs) |-> [date |-> DateOf(layout, Len(vs), i), value |-> vs[i]]]

InitInflection ==
    /\ \E n \in 0..MaxPoints :
          \E vs \in [1..n -> SeriesValues] :
              \E layout \in DateLayouts :
                  data = SeriesOf(layout, vs)
    /\ inflections = NotCalled
    /\ ClassifierIdle
    /\ ValidatorIdle
    /\ ExtractorIdle
    /\ ResolverIdle
    /\ MapperIdle
    /\ NumericIdle
    /\ SeasonalIdle
    /\ InsightIdle
    /\ RepeatIdle
    /\ BadgeIdle
    /\ StoreIdle

DetectInflectionPoints ==
    /\ inflections = NotCalled
    /\ inflections' = [called |-> TRUE, points |-> detectInflectionPoints(data)]
    /\ UNCHANGED <<data, classifierVars, validatorVars, extractorVars, resolverVars, mapperVars, numericVars, seasonalVars, insightVars, repeatVars, badgeVars, storeVars>>

NextInflection == DetectInflectionPoints

SpecInflection == InitInflection /\ [][NextInflection]_vars

\* Inputs with small steps: rises and falls of 3% (below the magnitude
\* threshold), of 5% (on it) and of 30%
FineSeriesValues == {100, 103, 105, 130}

InitInflectionFine ==
    /\ \E n \in 0..MaxPoints :
          \E vs \in [1..n -> FineSeriesValues] :
              \E layout \in DateLayouts :
                  data = SeriesOf(layout, vs)
    /\ inflections = NotCalled
    /\ ClassifierIdle
    /\ ValidatorIdle
    /\ ExtractorIdle
    /\ ResolverIdle
    /\ MapperIdle
    /\ NumericIdle
    /\ SeasonalIdle
    /\ InsightIdle
    /\ RepeatIdle
    /\ BadgeIdle
    /\ StoreIdle

SpecInflectionFine == InitInflectionFine /\ [][NextInflection]_vars

----------------------------------------------------------------------------
(* Metric validators: src/unnamed/part_014 lines 40-50 and 279-303,        *)
(* src/src/lib/validation.ts lines 7-80                                    *)

VALIDATION_BOUNDS ==
    [median_price       |-> [min |-> Whole(10000), max |-> Whole(50000000), unit |-> "USD"],
     average_price      |-> [min |-> Whole(10000), max |-> Whole(50000000), unit |-> "USD"],
     price_per_sqft     |-> [min |-> Whole(10), max |-> Whole(5000), unit |-> "USD"],
     active_listings    |-> [min |-> Whole(0), max |-> Whole(100000), unit |-> "count"],
     sales_count        |-> [min |-> Whole(0), max |-> Whole(100000), unit |-> "count"],
     days_on_market     |-> [min |-> Whole(0), max |-> Whole(1000), unit |-> "days"],
     months_of_supply   |-> [min |-> Whole(0), max |-> Whole(36), unit |-> "months"],
     list_to_sale_ratio |-> [min |-> R(5, 10), max |-> R(15, 10), unit |-> "ratio"]]

METRIC_BOUNDS ==
    [median_price       |-> [min |-> Whole(10000), max |-> Whole(50000000), unit |-> "USD"],
     average_price      |-> [min |-> Whole(10000), max |-> Whole(50000000), unit |-> "USD"],
     price_per_sqft     |-> [min |-> Whole(10), max |-> Whole(5000), unit |-> "USD"],
     active_listings    |-> [min |-> Whole(0), max |-> Whole(100000), unit |-> "count"],
     sales_count        |-> [min |-> Whole(0), max |-> Whole(100000), unit |-> "count"],
     days_on_market     |-> [min |-> Whole(0), max |-> Whole(1000), unit |-> "days"],
     months_of_supply   |-> [min |-> Whole(0), max |-> Whole(36), unit |-> "months"],
     list_to_sale_ratio |-> [min |-> R(5, 10), max |-> R(15, 10), unit |-> "ratio"]]

\* `Value ${value} is below minimum expected (${bounds.min} ${bounds.unit})`
extractorReason(side, value, bound, unit) ==
    [side |-> side, value |-> value, bound |-> bound, unit |-> unit]

validateMetric_inclusive(metricTypeId, value) ==
    IF metricTypeId \notin DOMAIN VALIDATION_BOUNDS
    THEN [isOutlier |-> FALSE, reason |-> None]
    ELSE LET bounds == VALIDATION_BOUNDS[metricTypeId]
         IN  IF Le(value, bounds.min)
             THEN [isOutlier |-> TRUE,
                   reason |-> Some(extractorReason("below minimum", value, bounds.min, bounds.unit))]
             ELSE IF Le(bounds.max, value)
             THEN [isOutlier |-> TRUE,
                   reason |-> Some(extractorReason("above maximum", value, bounds.max, bounds.unit))]
             ELSE [isOutlier |-> FALSE, reason |-> None]

validateMetric(metricTypeId, value) ==
    IF metricTypeId \notin DOMAIN VALIDATION_BOUNDS
    THEN [isOutlier |-> FALSE, reason |-> None]
    ELSE LET bounds == VALIDATION_BOUNDS[metricTypeId]
         IN  IF Lt(value, bounds.min)
             THEN [isOutlier |-> TRUE,
                   reason |-> Some(extractorReason("below minimum", value, bounds.min, bounds.unit))]
             ELSE IF Lt(bounds.max, value)
             THEN [isOutlier |-> TRUE,
                   reason |-> Some(extractorReason("above maximum", value, bounds.max, bounds.unit))]
             ELSE [isOutlier |-> FALSE, reason |-> None]

\* the text formatValue renders: the number in the style of the metric's unit
formatValue(metricTypeId, value) ==
    IF metricTypeId \notin DOMAIN METRIC_BOUNDS THEN [style |-> "plain", of |-> value]
    ELSE LET unit == METRIC_BOUNDS[metricTypeId].unit
         IN  CASE unit = "USD" -> [style |-> "currency", of |-> value]
               [] unit = "ratio" -> [style |-> "percent", of |-> value]
               [] unit = "months" -> [style |-> "mo", of |-> value]
               [] unit = "days" -> [style |-> "days", of |-> value]
               [] OTHER -> [style |-> "plain", of |-> value]

\* `Value ${formatValue(id, value)} is below expected range (min: ${formatValue(id, bounds.min)})`
libraryReason(side, metricTypeId, value, bound) ==
    [side |-> side, value |-> formatValue(metricTypeId, value),
     bound |-> formatValue(metricTypeId, bound)]

validateMetricValue(metricTypeId, value) ==
    IF metricTypeId \notin DOMAIN METRIC_BOUNDS
    THEN [isValid |-> TRUE, isOutlier |-> FALSE, reason |-> None]
    ELSE LET bounds == METRIC_BOUNDS[metricTypeId]
         IN  IF IsNaN(value)
             THEN [isValid |-> FALSE, isOutlier |-> FALSE, reason |-> Some("Value must be a number")]
             ELSE IF Lt(value, bounds.min)
             THEN [isValid |-> TRUE, isOutlier |-> TRUE,
                   reason |-> Some(libraryReason("below min", metricTypeId, value, bounds.min))]
             ELSE IF Lt(bounds.max, value)
             THEN [isValid |-> TRUE, isOutlier |-> TRUE,
                   reason |-> Some(libraryReason("above max", metricTypeId, value, bounds.max))]
             ELSE [isValid |-> TRUE, isOutlier |-> FALSE, reason |-> None]

\* Inputs: the eight canonical ids and one id outside the table; every bound,
\* a value just inside and just outside it, a negative value and NaN
MetricIds == DOMAIN VALIDATION_BOUNDS \cup {"unknown_metric"}

ValidatedValues ==
    {NaN, Whole(-1), R(-1, 100), Whole(0), R(1, 100), R(49, 100), R(5, 10), R(51, 100),
     Whole(1), R(149, 100), R(15, 10), R(151, 100), Whole(9), Whole(10), Whole(11),
     Whole(35), Whole(36), R(361, 10), Whole(999), Whole(1000), Whole(1001),
     Whole(4999), Whole(5000), Whole(5001), Whole(9999), Whole(10000), Whole(10001),
     Whole(99999), Whole(100000), Whole(100001),
     Whole(49999999), Whole(50000000), Whole(50000001)}

InitValidate ==
    /\ valArgs \in [metricTypeId : MetricIds, value : ValidatedValues]
    /\ validation = NotCalled
    /\ libValidation = NotCalled
    /\ ClassifierIdle
    /\ DetectorIdle
    /\ ExtractorIdle
    /\ ResolverIdle
    /\ MapperIdle
    /\ NumericIdle
    /\ SeasonalIdle
    /\ InsightIdle
    /\ RepeatIdle
    /\ BadgeIdle
    /\ StoreIdle

ValidateMetric ==
    /\ validation = NotCalled
    /\ validation' = [called |-> TRUE, result |-> validateMetric(valArgs.metricTypeId, valArgs.value)]
    /\ UNCHANGED <<valArgs, libValidation, classifierVars, detectorVars, extractorVars, resolverVars, mapperVars, numericVars, seasonalVars, insightVars, repeatVars, badgeVars, storeVars>>

ValidateMetricValue ==
    /\ libValidation = NotCalled
    /\ libValidation' =
          [called |-> TRUE, result |-> validateMetricValue(valArgs.metricTypeId, valArgs.value)]
    /\ UNCHANGED <<valArgs, validation, classifierVars, detectorVars, extractorVars, resolverVars, mapperVars, numericVars, seasonalVars, insightVars, repeatVars, badgeVars, storeVars>>

NextValidate == ValidateMetric \/ ValidateMetricValue

SpecValidate == InitValidate /\ [][NextValidate]_vars

----------------------------------------------------------------------------
(* Text: a string is a tuple of one-character strings *)

Digits == <<"0", "1", "2", "3", "4", "5", "6", "7", "8", "9">>

UpperLetters == <<"A", "B", "C", "D", "E", "F", "G", "H", "I", "J", "K", "L", "M", "N", "O", "P", "Q", "R", "S", "T", "U", "V", "W", "X", "Y", "Z">>

LowerLetters == <<"a", "b", "c", "d", "e", "f", "g", "h", "i", "j", "k", "l", "m", "n", "o", "p", "q", "r", "s", "t", "u", "v", "w", "x", "y", "z">>

IndexIn(s, c) == CHOOSE i \in 1..Len(s) : s[i] = c

IsIn(s, c) == \E i \in 1..Len(s) : s[i] = c

IsDigit(c) == IsIn(Digits, c)

DigitValue(c) == IndexIn(Digits, c) - 1

IsLetter(c) == IsIn(UpperLetters, c) \/ IsIn(LowerLetters, c)

IsSpace(c) == c = " "

toLowerCase(s) ==
    [i \in 1..Len(s) |-> IF IsIn(UpperLetters, s[i])
                         THEN LowerLetters[IndexIn(UpperLetters, s[i])] ELSE s[i]]

RECURSIVE trimStart(_)
trimStart(s) == IF s # <<>> /\ IsSpace(s[1]) THEN trimStart(Tail(s)) ELSE s

RECURSIVE trimEnd(_)
trimEnd(s) ==
    IF s # <<>> /\ IsSpace(s[Len(s)]) THEN trimEnd(SubSeq(s, 1, Len(s) - 1)) ELSE s

trim(s) == trimEnd(trimStart(s))

includes(s, sub) ==
    \E i \in 1..(Len(s) - Len(sub) + 1) : SubSeq(s, i, i + Len(sub) - 1) = sub

startsWith(s, sub) == Len(sub) <= Len(s) /\ SubSeq(s, 1, Len(sub)) = sub

endsWith(s, sub) == Len(sub) <= Len(s) /\ SubSeq(s, Len(s) - Len(sub) + 1, Len(s)) = sub

\* the length of the longest prefix of s made of digits, of letters, of spaces
RECURSIVE digitRun(_)
digitRun(s) == IF s # <<>> /\ IsDigit(s[1]) THEN 1 + digitRun(Tail(s)) ELSE 0

RECURSIVE letterRun(_)
letterRun(s) == IF s # <<>> /\ IsLetter(s[1]) THEN 1 + letterRun(Tail(s)) ELSE 0

RECURSIVE spaceRun(_)
spaceRun(s) == IF s # <<>> /\ IsSpace(s[1]) THEN 1 + spaceRun(Tail(s)) ELSE 0

\* the number a string of digits denotes
RECURSIVE digitsToNat(_)
digitsToNat(s) ==
    IF s = <<>> THEN 0 ELSE 10 * digitsToNat(SubSeq(s, 1, Len(s) - 1)) + DigitValue(s[Len(s)])

\* String(n) for an integer n >= 0
RECURSIVE natToString(_)
natToString(n) ==
    IF n < 10 THEN <<Digits[n + 1]>> ELSE natToString(n \div 10) \o <<Digits[(n % 10) + 1]>>

\* s.padStart(2, '0')
padStart2(s) ==
    IF Len(s) = 0 THEN <<"0", "0">> ELSE IF Len(s) = 1 THEN <<"0">> \o s ELSE s

----------------------------------------------------------------------------
(* Header mapper: src/unnamed/part_014 lines 19-131 *)

MetricOrder ==
    <<"median_price", "average_price", "price_per_sqft", "active_listings",
      "sales_count", "days_on_market", "months_of_supply", "list_to_sale_ratio">>

HEADER_MAPPINGS ==
    [median_price |->
        <<<<"m", "e", "d", "i", "a", "n", " ", "s", "a", "l", "e", " ", "p", "r", "i", "c", "e">>, <<"m", "e", "d", "i", "a", "n", " ", "p", "r", "i", "c", "e">>, <<"m", "e", "d", "i", "a", "n", " ", "h", "o", "m", "e", " ", "p", "r", "i", "c", "e">>,
          <<"m", "e", "d", "i", "a", "n", " ", "s", "o", "l", "d", " ", "p", "r", "i", "c", "e">>>>,
     average_price |->
        <<<<"a", "v", "e", "r", "a", "g", "e", " ", "p", "r", "i", "c", "e">>, <<"a", "v", "g", " ", "p", "r", "i", "c", "e">>, <<"a", "v", "e", "r", "a", "g", "e", " ", "s", "a", "l", "e", " ", "p", "r", "i", "c", "e">>, <<"a", "v", "g", " ", "s", "a", "l", "e", " ", "p", "r", "i", "c", "e">>,
          <<"m", "o", "n", "t", "h", "l", "y", " ", "s", "a", "l", "e", "s", " ", "p", "r", "i", "c", "e", " ", "a", "v", "e", "r", "a", "g", "e">>, <<"m", "o", "n", "t", "h", "l", "y", " ", "a", "v", "g", " ", "p", "r", "i", "c", "e">>>>,
     price_per_sqft |->
        <<<<"p", "r", "i", "c", "e", " ", "p", "e", "r", " ", "s", "q", " ", "f", "t">>, <<"$", "/", "s", "q", "f", "t">>, <<"p", "r", "i", "c", "e", "/", "s", "q", "f", "t">>, <<"p", "r", "i", "c", "e", " ", "p", "e", "r", " ", "s", "q", "u", "a", "r", "e", " ", "f", "o", "o", "t">>,
          <<"p", "p", "s", "f">>>>,
     active_listings |->
        <<<<"a", "c", "t", "i", "v", "e", " ", "l", "i", "s", "t", "i", "n", "g", "s">>, <<"i", "n", "v", "e", "n", "t", "o", "r", "y">>, <<"a", "c", "t", "i", "v", "e", " ", "i", "n", "v", "e", "n", "t", "o", "r", "y">>, <<"l", "i", "s", "t", "i", "n", "g", "s">>,
          <<"t", "o", "t", "a", "l", " ", "a", "c", "t", "i", "v", "e">>>>,
     sales_count |->
        <<<<"n", "u", "m", "b", "e", "r", " ", "o", "f", " ", "s", "a", "l", "e", "s">>, <<"s", "a", "l", "e", "s">>, <<"c", "l", "o", "s", "e", "d", " ", "s", "a", "l", "e", "s">>, <<"m", "o", "n", "t", "h", "l", "y", " ", "s", "a", "l", "e", "s">>,
          <<"s", "a", "l", "e", "s", " ", "c", "o", "u", "n", "t">>>>,
     days_on_market |->
        <<<<"d", "a", "y", "s", " ", "o", "n", " ", "m", "a", "r", "k", "e", "t">>, <<"d", "o", "m">>, <<"a", "v", "g", " ", "d", "o", "m">>, <<"a", "v", "e", "r", "a", "g", "e", " ", "d", "o", "m">>,
          <<"a", "v", "e", "r", "a", "g", "e", " ", "d", "a", "y", "s", " ", "o", "n", " ", "m", "a", "r", "k", "e", "t">>>>,
     months_of_supply |->
        <<<<"m", "o", "n", "t", "h", "s", " ", "o", "f", " ", "s", "u", "p", "p", "l", "y">>, <<"a", "b", "s", "o", "r", "p", "t", "i", "o", "n", " ", "r", "a", "t", "e">>, <<"m", "o", "n", "t", "h", "s", " ", "s", "u", "p", "p", "l", "y">>, <<"m", "o", "s">>>>,
     list_to_sale_ratio |->
        <<<<"l", "i", "s", "t", " ", "t", "o", " ", "s", "a", "l", "e", " ", "r", "a", "t", "i", "o">>, <<"s", "p", "/", "l", "p", " ", "r", "a", "t", "i", "o">>, <<"s", "a", "l", "e", " ", "t", "o", " ", "l", "i", "s", "t">>, <<"s", "p", "/", "l", "p">>,
          <<"l", "i", "s", "t", "-", "t", "o", "-", "s", "a", "l", "e">>>>]

DATE_HEADERS == <<<<"d", "a", "t", "e">>, <<"p", "e", "r", "i", "o", "d">>, <<"m", "o", "n", "t", "h">>, <<"y", "e", "a", "r">>, <<"t", "i", "m", "e">>, <<"r", "e", "p", "o", "r", "t", " ", "d", "a", "t", "e">>>>

DISPLAY_NAMES ==
    [median_price |-> "Median Sale Price", average_price |-> "Average Sale Price",
     price_per_sqft |-> "Price Per Sq Ft", active_listings |-> "Active Listings",
     sales_count |-> "Number of Sales", days_on_market |-> "Days on Market",
     months_of_supply |-> "Months of Supply", list_to_sale_ratio |-> "List to Sale Ratio"]

\* header.toLowerCase().trim().replace(/[_-]/g, ' ')
normalizeHeader(header) ==
    LET t == trim(toLowerCase(header))
    IN  [i \in 1..Len(t) |-> IF t[i] \in {"_", "-"} THEN " " ELSE t[i]]

isYtdHeader(header) == includes(normalizeHeader(header), <<"y", "t", "d">>)

isMonthHeader(header) == normalizeHeader(header) \in {<<"m", "o", "n", "t", "h">>, <<"r", "e", "p", "o", "r", "t", " ", "m", "o", "n", "t", "h">>}

isYearHeader(header) == normalizeHeader(header) \in {<<"y", "e", "a", "r">>, <<"r", "e", "p", "o", "r", "t", " ", "y", "e", "a", "r">>}

\* aliases.some((alias) => normalized.includes(alias) || alias.includes(normalized))
matchesAny(normalized, aliases) ==
    \E i \in 1..Len(aliases) :
        includes(normalized, aliases[i]) \/ includes(aliases[i], normalized)

isDateHeader(header) == matchesAny(normalizeHeader(header), DATE_HEADERS)

\* the first metric type, in the table's order, with a matching alias
findMetricType(header) ==
    LET normalized == normalizeHeader(header)
        hits == {i \in 1..Len(MetricOrder) :
                    matchesAny(normalized, HEADER_MAPPINGS[MetricOrder[i]])}
    IN  IF hits = {} THEN None
        ELSE Some(MetricOrder[CHOOSE i \in hits : \A j \in hits : i <= j])

\* headerMap is kept as the list of its entries <<header, metricType>> in the
\* order Object.entries gives them: the order of first insertion
setEntry(entries, header, metricType) ==
    IF \E i \in 1..Len(entries) : entries[i][1] = header
    THEN [i \in 1..Len(entries) |->
             IF entries[i][1] = header THEN <<header, metricType>> ELSE entries[i]]
    ELSE Append(entries, <<header, metricType>>)

mapHeader_ytdNotSkipped(acc, header) ==
    IF normalizeHeader(header) = <<>> THEN acc
    ELSE IF isMonthHeader(header) THEN [acc EXCEPT !.monthColumn = Some(header)]
    ELSE IF isYearHeader(header) THEN [acc EXCEPT !.yearColumn = Some(header)]
    ELSE IF isDateHeader(header) THEN [acc EXCEPT !.dateColumn = Some(header)]
    ELSE LET metricType == findMetricType(header)
         IN  IF metricType # None
             THEN [acc EXCEPT !.headerMap = setEntry(acc.headerMap, header, metricType[1])]
             ELSE acc

\* the body of mapHeaders' loop for one header
mapHeader(acc, header) ==
    IF normalizeHeader(header) = <<>> THEN acc
    ELSE IF isYtdHeader(header) THEN acc
    ELSE IF isMonthHeader(header) THEN [acc EXCEPT !.monthColumn = Some(header)]
    ELSE IF isYearHeader(header) THEN [acc EXCEPT !.yearColumn = Some(header)]
    ELSE IF isDateHeader(header) THEN [acc EXCEPT !.dateColumn = Some(header)]
    ELSE LET metricType == findMetricType(header)
         IN  IF metricType # None
             THEN [acc EXCEPT !.headerMap = setEntry(acc.headerMap, header, metricType[1])]
             ELSE acc

RECURSIVE mapHeadersFrom(_, _, _)
mapHeadersFrom(headers, i, acc) ==
    IF i > Len(headers) THEN acc
    ELSE mapHeadersFrom(headers, i + 1, mapHeader(acc, headers[i]))

mapHeaders(headers) ==
    mapHeadersFrom(headers, 1,
                   [headerMap |-> <<>>, dateColumn |-> None,
                    monthColumn |-> None, yearColumn |-> None])

----------------------------------------------------------------------------
(* Cell parsers: src/unnamed/part_014 lines 133-277.  A cell is a record   *)
(* with t = "null" | "num" | "str" | "date" and, by kind, the number num,   *)
(* the text text, or the UTC <<year, month, day>> ymd of a Date object.     *)

NullCell == [t |-> "null", num |-> Whole(0), text |-> <<>>, ymd |-> <<0, 0, 0>>]

NumCell(x) == [t |-> "num", num |-> x, text |-> <<>>, ymd |-> <<0, 0, 0>>]

StrCell(s) == [t |-> "str", num |-> Whole(0), text |-> s, ymd |-> <<0, 0, 0>>]

DateCell(y, m, d) == [t |-> "date", num |-> Whole(0), text |-> <<>>, ymd |-> <<y, m, d>>]

\* JavaScript truthiness of a cell value
truthy(cell) ==
    CASE cell.t = "null" -> FALSE
      [] cell.t = "num" -> ~IsNaN(cell.num) /\ cell.num.n # 0
      [] cell.t = "str" -> cell.text # <<>>
      [] cell.t = "date" -> TRUE

\* rawValue === null || rawValue === undefined || rawValue === ''
isBlank(cell) == cell.t = "null" \/ (cell.t = "str" /\ cell.text = <<>>)

RECURSIVE pow10(_)
pow10(k) == IF k = 0 THEN 1 ELSE 10 * pow10(k - 1)

\* Math.trunc
trunc(x) == IF x.n >= 0 THEN x.n \div x.d ELSE -((-x.n) \div x.d)

\* normalized.replace(/[^0-9.-]/g, '')
RECURSIVE keepNumeric(_)
keepNumeric(s) ==
    IF s = <<>> THEN <<>>
    ELSE IF IsDigit(s[1]) \/ s[1] \in {".", "-"} THEN <<s[1]>> \o keepNumeric(Tail(s))
    ELSE keepNumeric(Tail(s))

\* parseFloat of a text of digits, '.' and '-': the longest prefix that is a
\* decimal literal, None for NaN
parseFloat(s) ==
    LET negative == s # <<>> /\ s[1] = "-"
        r == IF negative THEN Tail(s) ELSE s
        ni == digitRun(r)
        afterInt == SubSeq(r, ni + 1, Len(r))
        nf == IF afterInt # <<>> /\ afterInt[1] = "." THEN digitRun(Tail(afterInt)) ELSE 0
        whole == digitsToNat(SubSeq(r, 1, ni))
        frac == digitsToNat(SubSeq(afterInt, 2, nf + 1))
        magnitude == whole * pow10(nf) + frac
    IN  IF ni + nf = 0 THEN None
        ELSE Some(R(IF negative THEN -magnitude ELSE magnitude, pow10(nf)))

parseNumericValue_percentKept(cell) ==
    IF cell.t = "num" THEN Some(cell.num)
    ELSE IF cell.t = "str"
    THEN LET trimmed == trim(cell.text)
             normalized == IF startsWith(trimmed, <<"(">>) /\ endsWith(trimmed, <<")">>)
                           THEN <<"-">> \o SubSeq(trimmed, 2, Len(trimmed) - 1)
                           ELSE trimmed
             num == parseFloat(keepNumeric(normalized))
         IN  IF num = None THEN None
             ELSE num
    ELSE None

parseNumericValue(cell) ==
    IF cell.t = "num" THEN Some(cell.num)
    ELSE IF cell.t = "str"
    THEN LET trimmed == trim(cell.text)
             normalized == IF startsWith(trimmed, <<"(">>) /\ endsWith(trimmed, <<")">>)
                           THEN <<"-">> \o SubSeq(trimmed, 2, Len(trimmed) - 1)
                           ELSE trimmed
             num == parseFloat(keepNumeric(normalized))
         IN  IF num = None THEN None
             ELSE IF includes(cell.text, <<"%">>) THEN Some(R(num[1].n, num[1].d * 100))
             ELSE num
    ELSE None

\* the `months` table of parseDate: names and three-letter abbreviations
MonthNames ==
    <<<<<<"j", "a", "n">>, <<"j", "a", "n", "u", "a", "r", "y">>>>, <<<<"f", "e", "b">>, <<"f", "e", "b", "r", "u", "a", "r", "y">>>>, <<<<"m", "a", "r">>, <<"m", "a", "r", "c", "h">>>>,
      <<<<"a", "p", "r">>, <<"a", "p", "r", "i", "l">>>>, <<<<"m", "a", "y">>>>, <<<<"j", "u", "n">>, <<"j", "u", "n", "e">>>>, <<<<"j", "u", "l">>, <<"j", "u", "l", "y">>>>,
      <<<<"a", "u", "g">>, <<"a", "u", "g", "u", "s", "t">>>>, <<<<"s", "e", "p">>, <<"s", "e", "p", "t", "e", "m", "b", "e", "r">>>>, <<<<"o", "c", "t">>, <<"o", "c", "t", "o", "b", "e", "r">>>>,
      <<<<"n", "o", "v">>, <<"n", "o", "v", "e", "m", "b", "e", "r">>>>, <<<<"d", "e", "c">>, <<"d", "e", "c", "e", "m", "b", "e", "r">>>>>>

\* the `months` table of parseMonthValue: the same, and "sept"
MonthValueNames == [MonthNames EXCEPT ![9] = Append(MonthNames[9], <<"s", "e", "p", "t">>)]

\* months[name]: the two-digit month, None when the name is not in the table
lookupMonth(table, name) ==
    LET hits == {m \in 1..12 : \E i \in 1..Len(table[m]) : table[m][i] = name}
    IN  IF hits = {} THEN None ELSE Some(padStart2(natToString(CHOOSE m \in hits : TRUE)))

\* XLSX.SSF.parse_date_code: the 1900 date system, serial 60 being the
\* non-existent 1900-02-29; None outside 0..2958465
MAX_DATE_SERIAL == 2958465

civilFromDays(days) ==
    LET z == days + 719468
        era == z \div 146097
        doe == z - era * 146097
        yoe == (doe - doe \div 1460 + doe \div 36524 - doe \div 146096) \div 365
        doy == doe - (365 * yoe + yoe \div 4 - yoe \div 100)
        mp == (5 * doy + 2) \div 153
        d == doy - (153 * mp + 2) \div 5 + 1
        m == IF mp < 10 THEN mp + 3 ELSE mp - 9
        y == yoe + era * 400 + (IF m <= 2 THEN 1 ELSE 0)
    IN  [y |-> y, m |-> m, d |-> d]

parse_date_code(v) ==
    IF IsNaN(v) \/ v.d = 0 \/ v.n < 0 \/ Lt(Whole(MAX_DATE_SERIAL), v) THEN None
    ELSE LET date == v.n \div v.d
         IN  IF date = 60 THEN Some([y |-> 1900, m |-> 2, d |-> 29])
             ELSE IF date = 0 THEN Some([y |-> 1900, m |-> 1, d |-> 0])
             ELSE Some(civilFromDays((IF date > 60 THEN date - 1 ELSE date) - 1 - 25567))

\* `${y}-${mm}-${dd}`
dateString(y, mm, dd) == y \o <<"-">> \o mm \o <<"-">> \o dd

\* new Date(str) for a text that matched none of the three patterns: the
\* texts below are Invalid Date; other texts are not modelled
NotADate == {<<"n", "/", "a">>, <<"t", "b", "d">>, <<"-">>, <<" ">>}

dateConstructor(str) == CASE str \in NotADate -> None

isoMatchDate_firstOfMonth(year, month, day) ==
    dateString(year, padStart2(month), <<"0", "1">>)

\* `${isoMatch[1]}-${isoMatch[2].padStart(2, '0')}-${isoMatch[3].padStart(2, '0')}`
isoMatchDate(year, month, day) == dateString(year, padStart2(month), padStart2(day))

parseDateText(value) ==
    LET str == trim(value)
        \* /^(\d{4})-(\d{1,2})-(\d{1,2})/
        y4 == digitRun(str)
        isoM == IF y4 >= 4 /\ Len(str) > 4 /\ str[5] = "-"
                THEN (IF digitRun(SubSeq(str, 6, Len(str))) >= 2 THEN 2
                      ELSE digitRun(SubSeq(str, 6, Len(str))))
                ELSE 0
        isoRest == SubSeq(str, 6 + isoM, Len(str))
        isoD == IF isoM > 0 /\ isoRest # <<>> /\ isoRest[1] = "-"
                THEN (IF digitRun(Tail(isoRest)) >= 2 THEN 2 ELSE digitRun(Tail(isoRest)))
                ELSE 0
        \* /^(\d{1,2})\/(\d{1,2})\/(\d{4})/
        usM == IF y4 \in {1, 2} /\ Len(str) > y4 /\ str[y4 + 1] = "/" THEN y4 ELSE 0
        usRest == SubSeq(str, usM + 2, Len(str))
        usDrun == digitRun(usRest)
        usD == IF usM > 0 /\ usDrun \in {1, 2} /\ Len(usRest) > usDrun /\ usRest[usDrun + 1] = "/"
               THEN usDrun ELSE 0
        usYear == SubSeq(usRest, usD + 2, Len(usRest))
        usOk == usD > 0 /\ digitRun(usYear) >= 4
        \* /^([A-Za-z]+)\s+(\d{4})/
        nameLen == letterRun(str)
        afterName == SubSeq(str, nameLen + 1, Len(str))
        gap == spaceRun(afterName)
        myYear == SubSeq(afterName, gap + 1, Len(afterName))
        myOk == nameLen > 0 /\ gap > 0 /\ digitRun(myYear) >= 4
        month == IF myOk THEN lookupMonth(MonthNames, toLowerCase(SubSeq(str, 1, nameLen)))
                 ELSE None
    IN  IF isoD > 0
        THEN Some(isoMatchDate(SubSeq(str, 1, 4), SubSeq(str, 6, 5 + isoM),
                               SubSeq(isoRest, 2, 1 + isoD)))
        ELSE IF usOk
        THEN Some(dateString(SubSeq(usYear, 1, 4), padStart2(SubSeq(str, 1, usM)),
                             padStart2(SubSeq(usRest, 1, usD))))
        ELSE IF month # None
        THEN Some(dateString(SubSeq(myYear, 1, 4), month[1], <<"0", "1">>))
        ELSE dateConstructor(str)

parseDate(cell) ==
    IF ~truthy(cell) THEN None
    ELSE IF cell.t = "date"
    THEN Some(dateString(natToString(cell.ymd[1]), padStart2(natToString(cell.ymd[2])),
                         padStart2(natToString(cell.ymd[3]))))
    ELSE IF cell.t = "num"
    THEN LET date == parse_date_code(cell.num)
         IN  IF date # None
             THEN Some(dateString(natToString(date[1].y), padStart2(natToString(date[1].m)),
                                  padStart2(natToString(date[1].d))))
             ELSE None
    ELSE parseDateText(cell.text)

parseMonthValue(cell) ==
    IF cell.t = "num" /\ Le(Whole(1), cell.num) /\ Le(cell.num, Whole(12))
    THEN Some(padStart2(natToString(trunc(cell.num))))
    ELSE IF cell.t = "str"
    THEN LET trimmed == toLowerCase(trim(cell.text))
             allDigits == Len(trimmed) \in {1, 2} /\ digitRun(trimmed) = Len(trimmed)
         IN  IF allDigits /\ digitsToNat(trimmed) \in 1..12
             THEN Some(padStart2(natToString(digitsToNat(trimmed))))
             ELSE lookupMonth(MonthValueNames, trimmed)
    ELSE None

----------------------------------------------------------------------------
(* Row extractor: src/unnamed/part_014 lines 305-470.  The workbook is      *)
(* [hasSheet |-> BOOLEAN, rows |-> the cells of the first sheet, row by     *)
(* row]; what XLSX.utils.sheet_to_json makes of it is modelled from the     *)
(* library's behaviour for sheets whose header cells are texts or empty.    *)

HEADER_SCAN_ROWS == 10

MIN_YEAR == 1000

isBlankRow(row) == \A i \in 1..Len(row) : row[i].t = "null"

\* sheet_to_json(..., {blankrows: false}): rows without any cell are left out
RECURSIVE dropBlankRows(_)
dropBlankRows(rows) ==
    IF rows = <<>> THEN <<>>
    ELSE (IF isBlankRow(rows[1]) THEN <<>> ELSE <<rows[1]>>) \o dropBlankRows(Tail(rows))

\* s.padStart(k, '0')
RECURSIVE padZeros(_, _)
padZeros(s, k) == IF Len(s) >= k THEN s ELSE padZeros(<<"0">> \o s, k)

\* without the trailing zeros of a fraction
RECURSIVE dropTrailingZeros(_)
dropTrailingZeros(s) ==
    IF s # <<>> /\ s[Len(s)] = "0" THEN dropTrailingZeros(SubSeq(s, 1, Len(s) - 1)) ELSE s

\* String(x) for a number with at most six decimal places
numberText(x) ==
    IF IsNaN(x) THEN <<"N", "a", "N">>
    ELSE IF x.d = 0 THEN <<"I", "n", "f", "i", "n", "i", "t", "y">>
    ELSE LET mag == IF x.n < 0 THEN -x.n ELSE x.n
             whole == natToString(mag \div x.d)
             micro == ((mag % x.d) * pow10(6)) \div x.d
             fraction == dropTrailingZeros(padZeros(natToString(micro), 6))
         IN  (IF x.n < 0 THEN <<"-">> ELSE <<>>) \o whole
             \o (IF fraction = <<>> THEN <<>> ELSE <<".">> \o fraction)

\* String(cell) of a text or number cell, '' for an empty one
cellText(cell) ==
    CASE cell.t = "str" -> cell.text
      [] cell.t = "num" -> numberText(cell.num)
      [] cell.t = "null" -> <<>>

\* sheet_to_json's keys for the first row: an empty cell is "__EMPTY", and a
\* key seen k times before gets the suffix "_k"
sheetKeys(firstRow) ==
    LET base(i) == IF firstRow[i].t = "null" THEN <<"_", "_", "E", "M", "P", "T", "Y">> ELSE cellText(firstRow[i])
        seen(i) == Cardinality({j \in 1..(i - 1) : base(j) = base(i)})
    IN  [i \in 1..Len(firstRow) |->
            IF seen(i) = 0 THEN base(i) ELSE base(i) \o <<"_">> \o natToString(seen(i))]

\* row[header]: the cell under the last column with that header, null if none
lookup(headers, row, header) ==
    LET cols == {i \in 1..Len(headers) : headers[i] = header /\ i <= Len(row)}
    IN  IF cols = {} THEN NullCell ELSE row[CHOOSE i \in cols : \A j \in cols : j <= i]

\* row.map((cell) => cell === null || cell === undefined ? '' : String(cell).trim())
candidateHeaders(row) == [i \in 1..Len(row) |-> trim(cellText(row[i]))]

headerScore(mapping) ==
    Len(mapping.headerMap)
    + (IF mapping.dateColumn # None THEN 1 ELSE 0)
    + (IF mapping.monthColumn # None /\ mapping.yearColumn # None THEN 1 ELSE 0)

\* "if (score > bestScore)": the best row so far after looking at row i
betterRow(best, i, headers, mapping) ==
    IF Len(headers) > 0 /\ headerScore(mapping) > best.score
    THEN [score |-> headerScore(mapping), rowIndex |-> i, headers |-> headers,
          mapping |-> mapping]
    ELSE best

scanHeaderRow(best, i, headers) == betterRow(best, i, headers, mapHeaders(headers))

\* the fallback scan of the first rows: the first row with the highest score
RECURSIVE scanHeaderRows(_, _, _)
scanHeaderRows(rawRows, i, best) ==
    IF i > Len(rawRows) \/ i > HEADER_SCAN_ROWS THEN best
    ELSE scanHeaderRows(rawRows, i + 1,
                        scanHeaderRow(best, i, candidateHeaders(rawRows[i])))

\* "if (bestRowIndex !== null && ... && bestScore > 0)": the scan's row replaces
\* the first row as header row, and the rows below it are the data
adoptBest(first, rawRows, best) ==
    IF best.score > 0
    THEN [headers |-> best.headers, mapping |-> best.mapping,
          data |-> SubSeq(rawRows, best.rowIndex + 1, Len(rawRows))]
    ELSE first

\* "if (Object.keys(headerMap).length === 0)": the fallback header-row discovery
discoverHeaders(first, rawRows) ==
    IF Len(first.mapping.headerMap) = 0
    THEN adoptBest(first, rawRows,
                   scanHeaderRows(rawRows, 1,
                                  [score |-> 0, rowIndex |-> 0, headers |-> <<>>,
                                   mapping |-> first.mapping]))
    ELSE first

firstRowHeaders(headers, body) ==
    [headers |-> headers, mapping |-> mapHeaders(headers), data |-> body]

\* headers, mapping and data rows after "Get headers from first row" and the
\* fallback header-row discovery
resolveHeaders(rows) ==
    discoverHeaders(firstRowHeaders(sheetKeys(rows[1]), dropBlankRows(Tail(rows))),
                    dropBlankRows(rows))

\* `${now.getFullYear()}-${String(now.getMonth() + 1).padStart(2, '0')}-01`
currentMonth(now) ==
    dateString(natToString(now.year), padStart2(natToString(now.month)), <<"0", "1">>)

\* the month/year branch, given what the two cells parsed to
monthYearDate(parsedMonth, parsedYear, rowIdx) ==
    IF parsedMonth # None /\ parsedYear # None /\ parsedYear[1].n # 0
       /\ Le(Whole(MIN_YEAR), parsedYear[1])
    THEN [ok |-> TRUE,
          date |-> dateString(natToString(trunc(parsedYear[1])), parsedMonth[1], <<"0", "1">>)]
    ELSE [ok |-> FALSE,
          warning |-> [kind |-> "Could not parse month/year", row |-> rowIdx + 2]]

\* the date column branch, given what the cell parsed to
dateColumnDate(parsed, rowIdx) ==
    IF parsed # None
    THEN [ok |-> TRUE, date |-> parsed[1]]
    ELSE [ok |-> FALSE, warning |-> [kind |-> "Could not parse date", row |-> rowIdx + 2]]

\* row[column] for an optional column name: undefined (as null) without one
columnCell(headers, row, column) ==
    IF column # None THEN lookup(headers, row, column[1]) ELSE NullCell

datedBy(mapping, monthCell, yearCell, dateCell, rowIdx, now) ==
    IF mapping.monthColumn # None /\ mapping.yearColumn # None
       /\ truthy(monthCell) /\ truthy(yearCell)
    THEN monthYearDate(parseMonthValue(monthCell), parseNumericValue(yearCell), rowIdx)
    ELSE IF mapping.dateColumn # None /\ truthy(dateCell)
    THEN dateColumnDate(parseDate(dateCell), rowIdx)
    ELSE [ok |-> TRUE, date |-> currentMonth(now)]

\* "Get date for this row": the date, or the warning that skips the row
rowDate(headers, mapping, row, rowIdx, now) ==
    datedBy(mapping, columnCell(headers, row, mapping.monthColumn),
            columnCell(headers, row, mapping.yearColumn),
            columnCell(headers, row, mapping.dateColumn), rowIdx, now)

\* result.metrics.push({...}) for a parsed value
pushMetric_dropOutliers(metricsSoFar, metricTypeId, value, recordedDate) ==
    LET validated == validateMetric(metricTypeId, value)
    IN  IF validated.isOutlier THEN metricsSoFar
        ELSE Append(metricsSoFar,
                    [metricTypeId |-> metricTypeId, displayName |-> DISPLAY_NAMES[metricTypeId],
                     value |-> value, recordedDate |-> recordedDate,
                     isOutlier |-> validated.isOutlier, outlierReason |-> validated.reason])

pushMetric(metricsSoFar, metricTypeId, value, recordedDate) ==
    LET validated == validateMetric(metricTypeId, value)
    IN  Append(metricsSoFar,
               [metricTypeId |-> metricTypeId, displayName |-> DISPLAY_NAMES[metricTypeId],
                value |-> value, recordedDate |-> recordedDate,
                isOutlier |-> validated.isOutlier, outlierReason |-> validated.reason])

\* one entry of headerMap for one row, given the cell and what it parsed to
extractCell(acc, header, metricTypeId, rawValue, value, rowIdx, recordedDate) ==
    IF isBlank(rawValue) THEN acc
    ELSE IF value = None
    THEN [acc EXCEPT !.warnings =
             Append(@, [kind |-> "Could not parse value", row |-> rowIdx + 2,
                        header |-> header])]
    ELSE [acc EXCEPT !.metrics = pushMetric(@, metricTypeId, value[1], recordedDate)]

parseCell(acc, header, metricTypeId, rawValue, rowIdx, recordedDate) ==
    extractCell(acc, header, metricTypeId, rawValue, parseNumericValue(rawValue), rowIdx,
                recordedDate)

\* "Extract metrics from this row": the loop over headerMap's entries, from entry k on
RECURSIVE extractCells(_, _, _, _, _, _, _)
extractCells(acc, headers, entries, k, row, rowIdx, recordedDate) ==
    IF k > Len(entries) THEN acc
    ELSE extractCells(parseCell(acc, entries[k][1], entries[k][2],
                                lookup(headers, row, entries[k][1]), rowIdx, recordedDate),
                      headers, entries, k + 1, row, rowIdx, recordedDate)

processRow_badDateClearsBatch(acc, headers, mapping, row, rowIdx, dated) ==
    IF dated.ok
    THEN extractCells(acc, headers, mapping.headerMap, 1, row, rowIdx, dated.date)
    ELSE [metrics |-> <<>>, warnings |-> Append(acc.warnings, dated.warning)]

\* one row, given its date or warning
processRow(acc, headers, mapping, row, rowIdx, dated) ==
    IF dated.ok
    THEN extractCells(acc, headers, mapping.headerMap, 1, row, rowIdx, dated.date)
    ELSE [acc EXCEPT !.warnings = Append(@, dated.warning)]

\* "Process each row", from (0-based) row rowIdx on
RECURSIVE processRows(_, _, _, _, _, _)
processRows(acc, headers, mapping, dataRows, rowIdx, now) ==
    IF rowIdx >= Len(dataRows) THEN acc
    ELSE processRows(processRow(acc, headers, mapping, dataRows[rowIdx + 1], rowIdx,
                                rowDate(headers, mapping, dataRows[rowIdx + 1], rowIdx, now)),
                     headers, mapping, dataRows, rowIdx + 1, now)

NoDateColumnWarning == [kind |-> "No date column found", row |-> 0]

failed(warnings, error) ==
    [called |-> TRUE, success |-> FALSE, metrics |-> <<>>, warnings |-> warnings,
     errors |-> <<error>>]

finished_alwaysSuccess(done) ==
    [called |-> TRUE, success |-> TRUE, metrics |-> done.metrics,
     warnings |-> done.warnings, errors |-> <<>>]

\* "if (result.metrics.length > 0)": the result after the row loop
finished(done) ==
    IF Len(done.metrics) > 0
    THEN [called |-> TRUE, success |-> TRUE, metrics |-> done.metrics,
          warnings |-> done.warnings, errors |-> <<>>]
    ELSE [called |-> TRUE, success |-> FALSE, metrics |-> <<>>, warnings |-> done.warnings,
          errors |-> <<"No valid metrics could be extracted from the file">>]

\* the extraction once headers, mapping and data rows are settled
extractRows(h, warnings, now) ==
    IF Len(h.mapping.headerMap) = 0
    THEN failed(warnings, "No recognizable metric columns found")
    ELSE finished(processRows([metrics |-> <<>>, warnings |-> warnings],
                              h.headers, h.mapping, h.data, 0, now))

dateWarnings(mapping) ==
    IF mapping.dateColumn = None /\ ~(mapping.monthColumn # None /\ mapping.yearColumn # None)
    THEN <<NoDateColumnWarning>> ELSE <<>>

extractResolved(h, now) == extractRows(h, dateWarnings(h.mapping), now)

extractFromFile(file, now) ==
    IF ~file.hasSheet THEN failed(<<>>, "No sheets found in the file")
    ELSE IF Len(file.rows) = 0 \/ Len(dropBlankRows(Tail(file.rows))) = 0
    THEN failed(<<>>, "No data found in the sheet")
    ELSE extractResolved(resolveHeaders(file.rows), now)

----------------------------------------------------------------------------
(* Inputs of the row extractor: a header layout, up to MaxRows data rows     *)
(* whose cells are drawn per column, and the month the clock shows           *)

MaxRows == 2

ValidIsoText == StrCell(<<"2", "0", "2", "4", "-", "0", "1", "-", "1", "5">>)

InvalidIsoText == StrCell(<<"2", "0", "2", "4", "-", "1", "3", "-", "4", "5">>)

NotANumberText == StrCell(<<"n", "/", "a">>)

EmptyText == StrCell(<<>>)

\* [fixed |-> the rows the sheet starts with, columns |-> the cells each
\* column of a data row is drawn from]
SheetLayouts ==
    {[fixed |-> <<<<StrCell(<<"D", "a", "t", "e">>), StrCell(<<"M", "e", "d", "i", "a", "n", " ", "S", "a", "l", "e", " ", "P", "r", "i", "c", "e">>),
                    StrCell(<<"A", "c", "t", "i", "v", "e", " ", "L", "i", "s", "t", "i", "n", "g", "s">>)>>>>,
      columns |-> <<{ValidIsoText, InvalidIsoText, NotANumberText},
                    {NumCell(Whole(450000)), NumCell(Whole(5000)), NotANumberText},
                    {NumCell(Whole(120)), EmptyText}>>],
     [fixed |-> <<<<StrCell(<<"M", "o", "n", "t", "h">>), StrCell(<<"Y", "e", "a", "r">>), StrCell(<<"M", "e", "d", "i", "a", "n", " ", "P", "r", "i", "c", "e">>)>>>>,
      columns |-> <<{NumCell(Whole(3)), StrCell(<<"S", "e", "p", "t">>), StrCell(<<"1", "3">>)},
                    {StrCell(<<"2", ",", "0", "2", "4">>), NumCell(Whole(24))},
                    {StrCell(<<"$", "4", "5", "0", ",", "0", "0", "0">>), StrCell(<<"(", "1", ",", "2", "0", "0", ")">>)}>>],
     [fixed |-> <<<<StrCell(<<"M", "e", "d", "i", "a", "n", " ", "P", "r", "i", "c", "e">>), StrCell(<<"L", "i", "s", "t", "-", "t", "o", "-", "S", "a", "l", "e">>)>>>>,
      columns |-> <<{NumCell(Whole(450000)), NullCell},
                    {StrCell(<<"9", "8", "%">>), StrCell(<<"1", "6", "0", "%">>), NumCell(R(99, 100))}>>],
     [fixed |-> <<<<StrCell(<<"M", "a", "r", "k", "e", "t", " ", "R", "e", "p", "o", "r", "t">>), NullCell>>,
                  <<StrCell(<<"D", "a", "t", "e">>), StrCell(<<"D", "a", "y", "s", " ", "o", "n", " ", "M", "a", "r", "k", "e", "t">>)>>>>,
      columns |-> <<{ValidIsoText, NumCell(Whole(45306)), NullCell},
                    {NumCell(Whole(45)), NumCell(Whole(2000)), NotANumberText}>>],
     [fixed |-> <<<<StrCell(<<"S", "a", "l", "e", "s", " ", "R", "e", "p", "o", "r", "t">>), NullCell>>,
                  <<StrCell(<<"D", "a", "t", "e">>), StrCell(<<"D", "a", "y", "s", " ", "o", "n", " ", "M", "a", "r", "k", "e", "t">>)>>>>,
      columns |-> <<{ValidIsoText}, {NumCell(Whole(45)), NumCell(Whole(2000))}>>],
     [fixed |-> <<<<StrCell(<<"M", "o", "n", "t", "h", "l", "y", " ", "R", "e", "p", "o", "r", "t">>), NullCell>>,
                  <<StrCell(<<"M", "e", "d", "i", "a", "n", " ", "P", "r", "i", "c", "e">>), StrCell(<<"N", "o", "t", "e", "s">>)>>>>,
      columns |-> <<{NumCell(Whole(450000))}, {NotANumberText, NullCell}>>],
     [fixed |-> <<<<StrCell(<<"N", "o", "t", "e", "s">>), StrCell(<<"C", "o", "m", "m", "e", "n", "t">>)>>>>,
      columns |-> <<{NotANumberText}, {NumCell(Whole(1)), NullCell}>>]}

\* headers whose normalized text contains "ytd"
YtdHeaders ==
    {<<"Y", "T", "D">>, <<"Y", "T", "D", " ", "M", "e", "d", "i", "a", "n", " ", "P", "r", "i", "c", "e">>, <<"M", "e", "d", "i", "a", "n", " ", "P", "r", "i", "c", "e", " ", "(", "y", "t", "d", ")">>, <<"y", "t", "d", "_", "d", "a", "t", "e">>,
     <<"M", "o", "n", "t", "h", " ", "Y", "T", "D">>, <<"Y", "e", "a", "r", "-", "Y", "T", "D">>}

\* a year-to-date column between a date column and a metric column, with
\* the header row first or below a banner row
YtdLayouts ==
    UNION {LET headerRow3 == <<StrCell(<<"D", "a", "t", "e">>), StrCell(h), StrCell(<<"M", "e", "d", "i", "a", "n", " ", "P", "r", "i", "c", "e">>)>>
               cells == <<{ValidIsoText}, {NumCell(Whole(400000))}, {NumCell(Whole(450000))}>>
           IN  {[fixed |-> <<headerRow3>>, columns |-> cells],
                [fixed |-> <<<<StrCell(<<"M", "a", "r", "k", "e", "t", " ", "R", "e", "p", "o", "r", "t">>), NullCell, NullCell>>, headerRow3>>,
                 columns |-> cells]} : h \in YtdHeaders}

\* The data rows a layout allows: one cell per column, each from its column
RECURSIVE RowsOf(_)
RowsOf(columns) ==
    IF columns = <<>> THEN {<<>>}
    ELSE {<<c>> \o rest : c \in columns[1], rest \in RowsOf(Tail(columns))}

Clocks == {[year |-> 2026, month |-> 11], [year |-> 2027, month |-> 1]}

InitExtract ==
    /\ \/ workbook = [hasSheet |-> FALSE, rows |-> <<>>]
       \/ \E layout \in SheetLayouts \cup YtdLayouts :
             \E n \in 0..MaxRows :
                 \E body \in [1..n -> RowsOf(layout.columns)] :
                     workbook = [hasSheet |-> TRUE, rows |-> layout.fixed \o body]
    /\ clock \in Clocks
    /\ result = NotCalled
    /\ ClassifierIdle
    /\ DetectorIdle
    /\ ValidatorIdle
    /\ ResolverIdle
    /\ MapperIdle
    /\ NumericIdle
    /\ SeasonalIdle
    /\ InsightIdle
    /\ RepeatIdle
    /\ BadgeIdle
    /\ StoreIdle

ExtractFromFile ==
    /\ result = NotCalled
    /\ result' = extractFromFile(workbook, clock)
    /\ UNCHANGED <<workbook, clock, classifierVars, detectorVars, validatorVars, resolverVars, mapperVars, numericVars, seasonalVars, insightVars, repeatVars, badgeVars, storeVars>>

NextExtract == ExtractFromFile

SpecExtract == InitExtract /\ [][NextExtract]_vars

----------------------------------------------------------------------------
(* Date resolution on its own: parseDate applied to a cell value, and then   *)
(* to the text it returned                                                   *)

\* the texts of all two-digit numbers from lo to hi
TwoDigits(lo, hi) == {padStart2(natToString(k)) : k \in lo..hi}

YearTexts == {<<"1", "9", "9", "9">>, <<"2", "0", "2", "4">>}

\* texts already in YYYY-MM-DD form, impossible months and days included
CanonicalTexts ==
    {dateString(y, m, d) : y \in YearTexts, m \in TwoDigits(0, 13), d \in {<<"0", "0">>, <<"0", "1">>, <<"1", "5">>, <<"2", "9">>, <<"3", "1">>, <<"4", "5">>}}

\* other values a date cell can hold
OtherDateValues ==
    {StrCell(<<"2", "0", "2", "4", "-", "1", "-", "5">>), StrCell(<<" ", "2", "0", "2", "4", "-", "0", "1", "-", "1", "5", " ">>), StrCell(<<"2", "0", "2", "4", "-", "0", "1", "-", "1", "5", "T", "1", "0", ":", "3", "0", ":", "0", "0">>),
     StrCell(<<"1", "/", "5", "/", "2", "0", "2", "4">>), StrCell(<<"1", "3", "/", "4", "5", "/", "2", "0", "2", "4">>), StrCell(<<"J", "a", "n", " ", "2", "0", "2", "4">>),
     StrCell(<<"s", "e", "p", "t", "e", "m", "b", "e", "r", " ", "2", "0", "2", "3">>), StrCell(<<"n", "/", "a">>), StrCell(<<>>),
     NumCell(Whole(45306)), NumCell(Whole(60)), NumCell(Whole(1)), NumCell(Whole(0)),
     NullCell, DateCell(2024, 1, 15)}

DateValues == {StrCell(s) : s \in CanonicalTexts} \cup OtherDateValues

InitParseDate ==
    /\ dateValue \in DateValues
    /\ resolved = NotCalled
    /\ resolvedAgain = NotCalled
    /\ ClassifierIdle
    /\ DetectorIdle
    /\ ValidatorIdle
    /\ ExtractorIdle
    /\ MapperIdle
    /\ NumericIdle
    /\ SeasonalIdle
    /\ InsightIdle
    /\ RepeatIdle
    /\ BadgeIdle
    /\ StoreIdle

\* parseDate(value)
ParseDate ==
    /\ resolved = NotCalled
    /\ resolved' = [called |-> TRUE, date |-> parseDate(dateValue)]
    /\ UNCHANGED <<dateValue, resolvedAgain, classifierVars, detectorVars, validatorVars, extractorVars, mapperVars, numericVars, seasonalVars, insightVars, repeatVars, badgeVars, storeVars>>

\* parseDate(parseDate(value)), when the first call returned a string
ParseDateAgain ==
    /\ resolved # NotCalled
    /\ resolved.date # None
    /\ resolvedAgain = NotCalled
    /\ resolvedAgain' = [called |-> TRUE, date |-> parseDate(StrCell(resolved.date[1]))]
    /\ UNCHANGED <<dateValue, resolved, classifierVars, detectorVars, validatorVars, extractorVars, mapperVars, numericVars, seasonalVars, insightVars, repeatVars, badgeVars, storeVars>>

NextParseDate == ParseDate \/ ParseDateAgain

SpecParseDate == InitParseDate /\ [][NextParseDate]_vars

----------------------------------------------------------------------------
(* Header mapping on its own: mapHeaders applied to a row of headers         *)

\* String.prototype.toUpperCase, used to vary the inputs' case
toUpperCase(s) ==
    [i \in 1..Len(s) |->
        IF IsIn(LowerLetters, s[i]) THEN UpperLetters[IndexIn(LowerLetters, s[i])] ELSE s[i]]

\* spaces written as underscores
underscored(s) == [i \in 1..Len(s) |-> IF s[i] = " " THEN "_" ELSE s[i]]

\* every alias of the table
AllAliases ==
    UNION {{HEADER_MAPPINGS[MetricOrder[m]][i] : i \in 1..Len(HEADER_MAPPINGS[MetricOrder[m]])} :
              m \in 1..Len(MetricOrder)}

\* the headers the import page lists under "Expected Column Headers"
AdvertisedHeaders ==
    {<<"D", "a", "t", "e">>, <<"P", "e", "r", "i", "o", "d">>, <<"M", "o", "n", "t", "h">>, <<"M", "e", "d", "i", "a", "n", " ", "S", "a", "l", "e", " ", "P", "r", "i", "c", "e">>, <<"M", "e", "d", "i", "a", "n", " ", "P", "r", "i", "c", "e">>,
     <<"P", "r", "i", "c", "e", " ", "P", "e", "r", " ", "S", "q", " ", "F", "t">>, <<"$", "/", "S", "q", "F", "t">>, <<"A", "c", "t", "i", "v", "e", " ", "L", "i", "s", "t", "i", "n", "g", "s">>, <<"I", "n", "v", "e", "n", "t", "o", "r", "y">>,
     <<"D", "a", "y", "s", " ", "o", "n", " ", "M", "a", "r", "k", "e", "t">>, <<"D", "O", "M">>, <<"M", "o", "n", "t", "h", "s", " ", "o", "f", " ", "S", "u", "p", "p", "l", "y">>, <<"A", "b", "s", "o", "r", "p", "t", "i", "o", "n", " ", "R", "a", "t", "e">>}

OtherHeaders == {<<"Y", "e", "a", "r">>, <<"R", "e", "p", "o", "r", "t", " ", "M", "o", "n", "t", "h">>, <<"N", "o", "t", "e", "s">>, <<>>}

HeaderInputs ==
    AllAliases \cup {underscored(toUpperCase(a)) : a \in AllAliases}
    \cup AdvertisedHeaders \cup YtdHeaders \cup OtherHeaders

InitMapHeaders ==
    /\ \E header \in HeaderInputs :
          \/ headerRow = <<header>>
          \/ headerRow = <<<<"D", "a", "t", "e">>, header>>
    /\ headerMapping = NotCalled
    /\ ClassifierIdle
    /\ DetectorIdle
    /\ ValidatorIdle
    /\ ExtractorIdle
    /\ ResolverIdle
    /\ NumericIdle
    /\ SeasonalIdle
    /\ InsightIdle
    /\ RepeatIdle
    /\ BadgeIdle
    /\ StoreIdle

\* mapHeaders(headers)
MapHeaders ==
    /\ headerMapping = NotCalled
    /\ headerMapping' = [called |-> TRUE, mapping |-> mapHeaders(headerRow)]
    /\ UNCHANGED <<headerRow, classifierVars, detectorVars, validatorVars, extractorVars, resolverVars, numericVars, seasonalVars, insightVars, repeatVars, badgeVars, storeVars>>

NextMapHeaders == MapHeaders

SpecMapHeaders == InitMapHeaders /\ [][NextMapHeaders]_vars

----------------------------------------------------------------------------
(* Numeric parsing on its own: parseNumericValue applied to a cell value     *)

\* a whole number with thousands separators, as spreadsheets print it
RECURSIVE grouped(_)
grouped(n) ==
    IF n < 1000 THEN natToString(n)
    ELSE grouped(n \div 1000) \o <<",">> \o padZeros(natToString(n % 1000), 3)

\* the parts a formatted number is written from
NumberParts ==
    [parenthesised : BOOLEAN, currency : BOOLEAN, whole : {0, 98, 1200, 450000},
     fraction : {<<>>, <<"5">>, <<"2", "5">>}, percent : BOOLEAN, padded : BOOLEAN]

\* the text of a formatted number, e.g. " ($1,200.5%) "
NumberText(p) ==
    (IF p.padded THEN <<" ">> ELSE <<>>)
    \o (IF p.parenthesised THEN <<"(">> ELSE <<>>)
    \o (IF p.currency THEN <<"$">> ELSE <<>>)
    \o grouped(p.whole)
    \o (IF p.fraction = <<>> THEN <<>> ELSE <<".">> \o p.fraction)
    \o (IF p.percent THEN <<"%">> ELSE <<>>)
    \o (IF p.parenthesised THEN <<")">> ELSE <<>>)
    \o (IF p.padded THEN <<" ">> ELSE <<>>)

\* texts without any digit
NumberlessTexts == {<<"n", "/", "a">>, <<"-">>, <<"$">>, <<"%">>, <<"(", ")">>, <<"T", "B", "D">>, <<>>}

NumericCells ==
    {StrCell(NumberText(p)) : p \in NumberParts}
    \cup {StrCell(s) : s \in NumberlessTexts}
    \cup {NumCell(Whole(450000)), NumCell(R(98, 100)), NumCell(Whole(-1200)), NumCell(Whole(0)),
          NullCell}

InitParseNumeric ==
    /\ numericCell \in NumericCells
    /\ numeric = NotCalled
    /\ ClassifierIdle
    /\ DetectorIdle
    /\ ValidatorIdle
    /\ ExtractorIdle
    /\ ResolverIdle
    /\ MapperIdle
    /\ SeasonalIdle
    /\ InsightIdle
    /\ RepeatIdle
    /\ BadgeIdle
    /\ StoreIdle

\* parseNumericValue(value)
ParseNumericValue ==
    /\ numeric = NotCalled
    /\ numeric' = [called |-> TRUE, value |-> parseNumericValue(numericCell)]
    /\ UNCHANGED <<numericCell, classifierVars, detectorVars, validatorVars, extractorVars, resolverVars, mapperVars, seasonalVars, insightVars, repeatVars, badgeVars, storeVars>>

NextParseNumeric == ParseNumericValue

SpecParseNumeric == InitParseNumeric /\ [][NextParseNumeric]_vars

----------------------------------------------------------------------------
(* Seasonal comparator: src/unnamed/part_010 *)

\* a - b on numbers
Minus(a, b) ==
    IF IsNaN(a) \/ IsNaN(b) THEN NaN
    ELSE IF a.d = 0 THEN (IF b.d = 0 THEN NaN ELSE a)
    ELSE IF b.d = 0 THEN NaN
    ELSE R(a.n * b.d - b.n * a.d, a.d * b.d)

\* one decimal, as the table is written
Tenths(k) == R(k, 10)

\* monthly deviations from the annual baseline, in percent
SEASONAL_BASELINES ==
    [median_price |->
        <<Tenths(5), Tenths(10), Tenths(20), Tenths(25), Tenths(30), Tenths(25),
          Tenths(20), Tenths(15), Tenths(5), Tenths(0), Tenths(-10), Tenths(-15)>>,
     average_price |->
        <<Tenths(5), Tenths(10), Tenths(20), Tenths(25), Tenths(30), Tenths(25),
          Tenths(20), Tenths(15), Tenths(5), Tenths(0), Tenths(-10), Tenths(-15)>>,
     sales_count |->
        <<Whole(-15), Whole(-5), Whole(15), Whole(20), Whole(25), Whole(20),
          Whole(15), Whole(10), Whole(0), Whole(-5), Whole(-15), Whole(-20)>>,
     days_on_market |->
        <<Whole(10), Whole(5), Whole(-10), Whole(-15), Whole(-15), Whole(-10),
          Whole(-5), Whole(0), Whole(5), Whole(10), Whole(15), Whole(15)>>,
     active_listings |->
        <<Whole(-10), Whole(-5), Whole(5), Whole(15), Whole(20), Whole(15),
          Whole(10), Whole(5), Whole(0), Whole(-5), Whole(-10), Whole(-15)>>]

TYPICAL_THRESHOLD == 3

getSeasonalBaseline(metric, month) ==
    IF metric \notin DOMAIN SEASONAL_BASELINES THEN None
    ELSE IF month \notin DOMAIN SEASONAL_BASELINES[metric] THEN None
    ELSE Some(SEASONAL_BASELINES[metric][month])

compareToSeasonal_inclusive(metric, month, actualChange) ==
    LET baseline == getSeasonalBaseline(metric, month)
    IN  IF baseline = None THEN "typical"
        ELSE IF Le(Whole(TYPICAL_THRESHOLD), Minus(actualChange, baseline[1])) THEN "above"
        ELSE IF Le(Minus(actualChange, baseline[1]), Whole(-TYPICAL_THRESHOLD)) THEN "below"
        ELSE "typical"

compareToSeasonal(metric, month, actualChange) ==
    LET baseline == getSeasonalBaseline(metric, month)
    IN  IF baseline = None THEN "typical"
        ELSE IF Lt(Whole(TYPICAL_THRESHOLD), Minus(actualChange, baseline[1])) THEN "above"
        ELSE IF Lt(Minus(actualChange, baseline[1]), Whole(-TYPICAL_THRESHOLD)) THEN "below"
        ELSE "typical"

SeasonalMonthNames ==
    <<"January", "February", "March", "April", "May", "June", "July", "August",
      "September", "October", "November", "December">>

getMonthName(month) == IF month \in DOMAIN SeasonalMonthNames THEN SeasonalMonthNames[month] ELSE ""

MetricLabels ==
    [median_price |-> "Median price", average_price |-> "Average price",
     sales_count |-> "Sales volume", days_on_market |-> "Days on market",
     active_listings |-> "Active inventory"]

getMetricLabel(metric) == IF metric \in DOMAIN MetricLabels THEN MetricLabels[metric] ELSE metric

\* Math.abs(baseline).toFixed(0): the nearest integer, halves away from zero
typicalAmount(baseline) ==
    LET magnitude == IF baseline.n < 0 THEN -baseline.n ELSE baseline.n
    IN  (2 * magnitude + baseline.d) \div (2 * baseline.d)

\* the filled template, as the sequence of its parts; '' is the empty sequence
contextText(metric, month, baseline, seasonal) ==
    LET typicalDirection == IF baseline.n >= 0 THEN "gains" ELSE "declines"
        usually == <<"(usually ", typicalAmount(baseline), "% ", typicalDirection, ")">>
    IN  CASE seasonal = "above" ->
               <<getMetricLabel(metric), " is outperforming typical ", getMonthName(month),
                 " patterns ">> \o usually
          [] seasonal = "below" ->
               <<getMetricLabel(metric), " is underperforming typical ", getMonthName(month),
                 " patterns ">> \o usually
          [] seasonal = "typical" ->
               <<getMetricLabel(metric), " is tracking typical ", getMonthName(month),
                 " seasonal patterns">>

getSeasonalContext(metric, month, actualChange) ==
    LET baseline == getSeasonalBaseline(metric, month)
    IN  IF baseline = None THEN <<>>
        ELSE contextText(metric, month, baseline[1],
                         compareToSeasonal(metric, month, actualChange))

\* metric ids: the five with a baseline, metrics without one, and an unknown id
SeasonalMetrics ==
    DOMAIN SEASONAL_BASELINES \cup {"price_per_sqft", "months_of_supply", "list_to_sale_ratio", "unknown"}

\* month numbers, with some outside 1-12
SeasonalMonths == -1..14

\* distances from a baseline, in tenths: around both ends of the band and far
BandOffsets == {-200, -31, -30, -29, 0, 29, 30, 31, 200}

\* observed changes: every baseline of the table moved by every offset, and NaN
ObservedChanges ==
    {Tenths((10 * SEASONAL_BASELINES[m][i].n) \div SEASONAL_BASELINES[m][i].d + o) :
         m \in DOMAIN SEASONAL_BASELINES, i \in 1..12, o \in BandOffsets}
    \cup {NaN}

InitSeasonal ==
    /\ seasonalArgs \in [metric : SeasonalMetrics, month : SeasonalMonths,
                         actualChange : ObservedChanges]
    /\ comparison = NotCalled
    /\ seasonalContext = NotCalled
    /\ ClassifierIdle
    /\ DetectorIdle
    /\ ValidatorIdle
    /\ ExtractorIdle
    /\ ResolverIdle
    /\ MapperIdle
    /\ NumericIdle
    /\ InsightIdle
    /\ RepeatIdle
    /\ BadgeIdle
    /\ StoreIdle

\* compareToSeasonal(metric, month, actualChange)
CompareToSeasonal ==
    /\ comparison = NotCalled
    /\ comparison' = [called |-> TRUE,
                      value |-> compareToSeasonal(seasonalArgs.metric, seasonalArgs.month,
                                                  seasonalArgs.actualChange)]
    /\ UNCHANGED <<seasonalArgs, seasonalContext, classifierVars, detectorVars, validatorVars, extractorVars, resolverVars, mapperVars, numericVars, insightVars, repeatVars, badgeVars, storeVars>>

\* getSeasonalContext(metric, month, actualChange)
GetSeasonalContext ==
    /\ seasonalContext = NotCalled
    /\ seasonalContext' = [called |-> TRUE,
                           text |-> getSeasonalContext(seasonalArgs.metric, seasonalArgs.month,
                                                       seasonalArgs.actualChange)]
    /\ UNCHANGED <<seasonalArgs, comparison, classifierVars, detectorVars, validatorVars, extractorVars, resolverVars, mapperVars, numericVars, insightVars, repeatVars, badgeVars, storeVars>>

NextSeasonal == CompareToSeasonal \/ GetSeasonalContext

SpecSeasonal == InitSeasonal /\ [][NextSeasonal]_vars

----------------------------------------------------------------------------
(* Insight synthesizer: src/unnamed/part_011 lines 427-847 *)

IsLeapYear(y) == (y % 4 = 0 /\ y % 100 # 0) \/ y % 400 = 0

DaysInMonth(y, m) ==
    IF m = 2 THEN (IF IsLeapYear(y) THEN 29 ELSE 28)
    ELSE IF m \in {4, 6, 9, 11} THEN 30 ELSE 31

\* a calendar date; the YYYY-MM-DD strings of the context are these
Ymd(y, m, d) == [year |-> y, month |-> m, day |-> d]

dayBefore(date) ==
    IF date.day > 1 THEN Ymd(date.year, date.month, date.day - 1)
    ELSE IF date.month > 1
    THEN Ymd(date.year, date.month - 1, DaysInMonth(date.year, date.month - 1))
    ELSE Ymd(date.year - 1, 12, 31)

dayAfter(date) ==
    IF date.day < DaysInMonth(date.year, date.month)
    THEN Ymd(date.year, date.month, date.day + 1)
    ELSE IF date.month < 12 THEN Ymd(date.year, date.month + 1, 1)
    ELSE Ymd(date.year + 1, 1, 1)

\* date.setFullYear(year) keeps month and day; a day the month lacks rolls over
setFullYear(date, year) ==
    IF date.day > DaysInMonth(year, date.month) THEN Ymd(year, date.month + 1, 1)
    ELSE Ymd(year, date.month, date.day)

\* toISOString().split('T')[0] of local noon: the UTC calendar date, which is
\* the day before when the zone is more than 12 hours ahead of UTC and the
\* day after when it is 12 hours behind
utcDateOfLocalNoon(date, utcOffset) ==
    IF utcOffset > 12 THEN dayBefore(date)
    ELSE IF utcOffset <= -12 THEN dayAfter(date)
    ELSE date

shiftYear(date, years, utcOffset) ==
    utcDateOfLocalNoon(setFullYear(date, date.year + years), utcOffset)

\* new Date(`${dateStr}T12:00:00`).getMonth() + 1
getMonth(date) == date.month

InsightMetricIds ==
    {"median_price", "average_price", "sales_count", "active_listings",
     "days_on_market", "list_to_sale_ratio"}

\* metricsByDate[dateStr]?.[metricTypeId] ?? null; an absent key is None
valueAt(metricsByDate, metricTypeId, date) ==
    IF date = None THEN None
    ELSE IF date[1] \notin DOMAIN metricsByDate THEN None
    ELSE metricsByDate[date[1]][metricTypeId]

latestValue(metricsByDate, metricTypeId, latestDate) ==
    valueAt(metricsByDate, metricTypeId, Some(latestDate))

\* a / b on finite numbers
Div(a, b) ==
    IF b.n = 0 THEN (IF a.n = 0 THEN NaN ELSE IF a.n > 0 THEN Infinity ELSE R(-1, 0))
    ELSE IF b.n > 0 THEN R(a.n * b.d, a.d * b.n)
    ELSE R(-(a.n * b.d), -(a.d * b.n))

\* lib/validation: ((current - previous) / previous) * 100, null when previous is 0
calculatePercentChange(current, previous) ==
    IF previous.n = 0 THEN None
    ELSE LET ratio == Div(Minus(current, previous), previous)
         IN  Some(R(100 * ratio.n, ratio.d))

\* calculatePercentChange when both values are there
changeBetween(current, previous) ==
    IF current # None /\ previous # None THEN calculatePercentChange(current[1], previous[1])
    ELSE None

isTypicallyStrongMonth(metric, month) ==
    LET baseline == getSeasonalBaseline(metric, month)
    IN  IF baseline = None THEN FALSE
        ELSE IF metric = "days_on_market" THEN Lt(baseline[1], Whole(-5))
        ELSE Lt(Whole(5), baseline[1])

isTypicallyWeakMonth(metric, month) ==
    LET baseline == getSeasonalBaseline(metric, month)
    IN  IF baseline = None THEN FALSE
        ELSE IF metric = "days_on_market" THEN Lt(Whole(5), baseline[1])
        ELSE Lt(baseline[1], Whole(-5))

getConditionLabel(condition) ==
    CASE condition = "sellers" -> "Seller's Market"
      [] condition = "buyers" -> "Buyer's Market"
      [] condition = "balanced" -> "Balanced Market"

\* a number as a template prints it
Formatted(how, value) == [format |-> how, value |-> value]

\* the descriptions of the first two factors that point to the condition
factorDescriptions(factors, condition) ==
    LET agrees(f) == f.indicator = condition
        matching == SelectSeq(factors, agrees)
    IN  [i \in 1..(IF Len(matching) < 2 THEN Len(matching) ELSE 2) |-> matching[i].description]

generateMarketConditionInsight(marketClassification, monthsOfSupply, dom) ==
    [id |-> "market-condition",
     headline |-> <<getConditionLabel(marketClassification.condition),
                    marketClassification.confidence>>,
     context |-> <<"Based on ",
                   factorDescriptions(marketClassification.factors,
                                      marketClassification.condition)>>,
     agentTalkingPoint |->
         CASE marketClassification.condition = "sellers" ->
                  "Tell buyers: 'Be prepared to act fast and come in with your strongest offer."
           [] marketClassification.condition = "buyers" ->
                  "Tell buyers: 'You have negotiating power right now."
           [] marketClassification.condition = "balanced" ->
                  "Position this as: 'The market is in equilibrium.",
     priority |-> "high",
     category |-> "market_condition"]

generatePriceInsight(median, momChange, yoyChange, month, monthName, marketClassification) ==
    LET seasonal == compareToSeasonal("median_price", month, yoyChange)
        direction == IF Le(Whole(0), yoyChange) THEN "up" ELSE "down"
    IN  [id |-> "price-trend",
         headline |-> IF seasonal = "above" THEN "Prices outperforming seasonal norms"
                      ELSE IF seasonal = "below"
                      THEN "Prices underperforming seasonal expectations"
                      ELSE "Prices tracking seasonal patterns",
         context |-> <<"Median price at ", Formatted("USD", median),
                       Formatted("toFixed(1)", Abs(yoyChange)), direction,
                       getSeasonalContext("median_price", month, yoyChange)>>,
         agentTalkingPoint |->
             IF Le(Whole(5), yoyChange) /\ marketClassification.condition = "sellers"
             THEN <<"Position this as: 'Despite rate concerns, our market remains resilient">>
             ELSE IF Lt(yoyChange, Whole(0))
             THEN <<"Frame this as: 'We're seeing a price correction">>
             ELSE <<"Tell clients: 'Prices are following typical seasonal patterns", monthName,
                    Formatted("toFixed(1)", Abs(yoyChange))>>,
         priority |-> IF seasonal \in {"above", "below"} THEN "high" ELSE "medium",
         category |-> "price"]

\* monthsOfSupply !== null && monthsOfSupply < bound
supplyBelow(monthsOfSupply, bound) ==
    monthsOfSupply # None /\ Lt(monthsOfSupply[1], Whole(bound))

supplyAbove(monthsOfSupply, bound) ==
    monthsOfSupply # None /\ Lt(Whole(bound), monthsOfSupply[1])

generateInventoryInsight(activeListings, monthsOfSupply, yoyChange, month) ==
    LET seasonal == compareToSeasonal("active_listings", month,
                                      IF yoyChange = None THEN Whole(0) ELSE yoyChange[1])
        level == IF supplyBelow(monthsOfSupply, 3)
                 THEN <<"Critically low inventory", "high">>
                 ELSE IF supplyAbove(monthsOfSupply, 6)
                 THEN <<"Elevated inventory levels", "high">>
                 ELSE IF seasonal = "above" THEN <<"Inventory above seasonal norms", "medium">>
                 ELSE IF seasonal = "below" THEN <<"Inventory below seasonal norms", "medium">>
                 ELSE <<"Inventory at typical levels", "low">>
    IN  [id |-> "inventory",
         headline |-> level[1],
         context |-> <<Formatted("toLocaleString", activeListings)>>
                     \o (IF monthsOfSupply # None
                         THEN <<Formatted("toFixed(1)", monthsOfSupply[1])>> ELSE <<>>)
                     \o (IF yoyChange # None
                         THEN <<Formatted("toFixed(1)", Abs(yoyChange[1])),
                                IF Le(Whole(0), yoyChange[1]) THEN "up" ELSE "down">>
                         ELSE <<>>),
         agentTalkingPoint |->
             IF supplyBelow(monthsOfSupply, 4)
             THEN "Tell sellers: 'Low inventory means your home will get maximum exposure."
             ELSE IF supplyAbove(monthsOfSupply, 6)
             THEN "Tell buyers: 'More options are available now."
             ELSE "Position this as: 'Inventory is balanced",
         priority |-> level[2],
         category |-> "inventory"]

\* dom !== null && dom < 30, and dom !== null && dom > 60
fastMarket(dom) == dom # None /\ Lt(dom[1], Whole(30))

slowMarket(dom) == dom # None /\ Lt(Whole(60), dom[1])

generateVelocityInsight(sales, salesYoYChange, dom, month, monthName) ==
    LET pace == IF fastMarket(dom) THEN <<"Fast market velocity", "high">>
                ELSE IF slowMarket(dom) THEN <<"Slow market velocity", "high">>
                ELSE IF salesYoYChange # None /\ Lt(Whole(15), Abs(salesYoYChange[1]))
                THEN <<IF Lt(Whole(0), salesYoYChange[1]) THEN "Sales volume surging"
                       ELSE "Sales volume declining", "medium">>
                ELSE <<"Steady market velocity", "low">>
    IN  [id |-> "velocity",
         headline |-> pace[1],
         context |-> (IF sales # None
                      THEN <<Formatted("toLocaleString", sales[1])>>
                           \o (IF salesYoYChange # None
                               THEN <<Formatted("toFixed(1)", Abs(salesYoYChange[1])),
                                      IF Le(Whole(0), salesYoYChange[1]) THEN "higher"
                                      ELSE "lower", monthName>>
                               ELSE <<>>)
                      ELSE <<>>)
                     \o (IF dom # None THEN <<Formatted("Math.round", dom[1])>> ELSE <<>>),
         agentTalkingPoint |->
             IF fastMarket(dom)
             THEN <<"Tell buyers: 'When you find the right home, be ready to move quickly.">>
             ELSE IF slowMarket(dom)
             THEN <<"Tell buyers: 'Sellers are more willing to negotiate.">>
             ELSE IF /\ isTypicallyStrongMonth("sales_count", month)
                     /\ salesYoYChange # None
                     /\ Lt(salesYoYChange[1], Whole(-10))
             THEN <<"Note to clients: 'Even though this is typically a strong month", monthName>>
             ELSE IF /\ isTypicallyWeakMonth("sales_count", month)
                     /\ salesYoYChange # None
                     /\ Lt(Whole(10), salesYoYChange[1])
             THEN <<"Note to clients: 'Unusually strong activity", monthName>>
             ELSE <<"Position this as: 'The market is moving at a healthy pace">>,
         priority |-> pace[2],
         category |-> "velocity"]

\* the spread insight, or None below the 5% gate
generateSpreadInsight(avgPrice, medianPrice) ==
    LET spread == Minus(avgPrice, medianPrice)
        ratio == Div(spread, medianPrice)
        spreadPercent == R(100 * ratio.n, ratio.d)
        above == Lt(Whole(0), spreadPercent)
    IN  IF Lt(Abs(spreadPercent), Whole(5)) THEN None
        ELSE Some([id |-> "price-spread",
                   headline |-> IF above THEN "High-end activity lifting averages"
                                ELSE "Entry-level homes dominating sales",
                   context |-> <<Formatted("USD", avgPrice), Formatted("USD", Abs(spread)),
                                 IF above THEN "above median" ELSE "below median">>,
                   agentTalkingPoint |->
                       IF above THEN "Position this as: 'Luxury properties are trading well"
                       ELSE "Position this as: 'First-time buyers are active",
                   priority |-> "low",
                   category |-> "price"])

\* activeListings / sales whenever both are there
monthsOfSupplyOf_zeroSalesDivides(activeListings, sales) ==
    IF activeListings # None /\ sales # None
    THEN Some(Div(activeListings[1], sales[1]))
    ELSE None

\* activeListings / sales when both are there and sales > 0
monthsOfSupplyOf(activeListings, sales) ==
    IF activeListings # None /\ sales # None /\ Lt(Whole(0), sales[1])
    THEN Some(Div(activeListings[1], sales[1]))
    ELSE None

\* "1. Market Condition Classification"
classifyLatest(monthsOfSupply, dom, listToSale, medianYoYChange) ==
    classifyMarket([monthsOfSupply |-> monthsOfSupply, daysOnMarket |-> dom,
                    listToSaleRatio |-> listToSale, priceYoYChange |-> medianYoYChange])

\* "2. Price Insights with Seasonal Context"
pushPrice(bundle, median, medianMoM, medianYoYChange, month, marketClassification) ==
    IF median # None /\ medianYoYChange # None
    THEN Append(bundle, generatePriceInsight(median[1], medianMoM, medianYoYChange[1], month,
                                             getMonthName(month), marketClassification))
    ELSE bundle

\* "3. Inventory Insights"
pushInventory(bundle, activeListings, monthsOfSupply, listingsYoY, month) ==
    IF activeListings # None
    THEN Append(bundle,
                generateInventoryInsight(activeListings[1], monthsOfSupply,
                                         changeBetween(activeListings, listingsYoY), month))
    ELSE bundle

\* "4. Velocity Insights (Sales + DOM)"
pushVelocity_needsBoth(bundle, sales, salesYoYChange, dom, month) ==
    IF sales # None /\ dom # None
    THEN Append(bundle, generateVelocityInsight(sales, salesYoYChange, dom, month,
                                                getMonthName(month)))
    ELSE bundle

pushVelocity(bundle, sales, salesYoYChange, dom, month) ==
    IF sales # None \/ dom # None
    THEN Append(bundle, generateVelocityInsight(sales, salesYoYChange, dom, month,
                                                getMonthName(month)))
    ELSE bundle

\* "5. Spread Analysis (Average vs Median)"
pushSpread(bundle, avgPrice, median) ==
    IF avgPrice # None /\ median # None
    THEN bundle \o generateSpreadInsight(avgPrice[1], median[1])
    ELSE bundle

\* the pushes after the market-condition insight, in source order
pushRest(bundle, get, lastYear, month, monthsOfSupply, medianYoYChange, marketClassification) ==
    pushSpread(
        pushVelocity(
            pushInventory(
                pushPrice(bundle, get.median, changeBetween(get.median, get.medianPrior),
                          medianYoYChange, month, marketClassification),
                get.activeListings, monthsOfSupply, lastYear.activeListings, month),
            get.sales, changeBetween(get.sales, lastYear.sales), get.dom, month),
        get.avgPrice, get.median)

\* from the classification on
synthesize(get, lastYear, month, monthsOfSupply, medianYoYChange, marketClassification) ==
    pushRest(<<generateMarketConditionInsight(marketClassification, monthsOfSupply, get.dom)>>,
             get, lastYear, month, monthsOfSupply, medianYoYChange, marketClassification)

\* from the values read on
insightsFrom(get, lastYear, month, monthsOfSupply, medianYoYChange) ==
    synthesize(get, lastYear, month, monthsOfSupply, medianYoYChange,
               classifyLatest(monthsOfSupply, get.dom, get.listToSale, medianYoYChange))

\* "Get current values" and the prior-month median
currentValues(metricsByDate, latestDate, priorMonthDate) ==
    [median |-> latestValue(metricsByDate, "median_price", latestDate),
     sales |-> latestValue(metricsByDate, "sales_count", latestDate),
     activeListings |-> latestValue(metricsByDate, "active_listings", latestDate),
     dom |-> latestValue(metricsByDate, "days_on_market", latestDate),
     listToSale |-> latestValue(metricsByDate, "list_to_sale_ratio", latestDate),
     avgPrice |-> latestValue(metricsByDate, "average_price", latestDate),
     medianPrior |-> valueAt(metricsByDate, "median_price", priorMonthDate)]

\* the values at priorYearDate
priorYearValues(metricsByDate, priorYearDate) ==
    [median |-> valueAt(metricsByDate, "median_price", Some(priorYearDate)),
     sales |-> valueAt(metricsByDate, "sales_count", Some(priorYearDate)),
     activeListings |-> valueAt(metricsByDate, "active_listings", Some(priorYearDate))]

insightsOf(get, lastYear, month) ==
    insightsFrom(get, lastYear, month, monthsOfSupplyOf(get.activeListings, get.sales),
                 changeBetween(get.median, lastYear.median))

\* ctx.priorYearDate and ctx.timeline are not read
generateEnhancedInsights(ctx) ==
    insightsOf(currentValues(ctx.metricsByDate, ctx.latestDate, ctx.priorMonthDate),
               priorYearValues(ctx.metricsByDate, shiftYear(ctx.latestDate, -1, ctx.utcOffset)),
               getMonth(ctx.latestDate))

\* the body of getMarketClassification from the values read on
badgeFrom(sales, activeListings, dom, listToSale, median, medianYoY) ==
    classifyMarket(
        [monthsOfSupply |-> IF activeListings # None /\ sales # None /\ Lt(Whole(0), sales[1])
                            THEN Some(Div(activeListings[1], sales[1])) ELSE None,
         daysOnMarket |-> dom,
         listToSaleRatio |-> listToSale,
         priceYoYChange |-> IF median # None /\ medianYoY # None
                            THEN calculatePercentChange(median[1], medianYoY[1]) ELSE None])

getMarketClassification_noPriceSignal(ctx) ==
    badgeFrom(latestValue(ctx.metricsByDate, "sales_count", ctx.latestDate),
              latestValue(ctx.metricsByDate, "active_listings", ctx.latestDate),
              latestValue(ctx.metricsByDate, "days_on_market", ctx.latestDate),
              latestValue(ctx.metricsByDate, "list_to_sale_ratio", ctx.latestDate),
              latestValue(ctx.metricsByDate, "median_price", ctx.latestDate),
              None)

getMarketClassification(ctx) ==
    badgeFrom(latestValue(ctx.metricsByDate, "sales_count", ctx.latestDate),
              latestValue(ctx.metricsByDate, "active_listings", ctx.latestDate),
              latestValue(ctx.metricsByDate, "days_on_market", ctx.latestDate),
              latestValue(ctx.metricsByDate, "list_to_sale_ratio", ctx.latestDate),
              latestValue(ctx.metricsByDate, "median_price", ctx.latestDate),
              valueAt(ctx.metricsByDate, "median_price",
                      Some(shiftYear(ctx.latestDate, -1, ctx.utcOffset))))

\* the latest period of a timeline
LatestDates == {Ymd(2024, 1, 15), Ymd(2024, 3, 1)}

\* a zone at UTC and one more than 12 hours ahead (Pacific/Auckland in summer)
UtcOffsets == {0, 13}

\* the same calendar day a year and a month before
yearBefore(date) == Ymd(date.year - 1, date.month, date.day)

monthBefore(date) ==
    IF date.month > 1 THEN Ymd(date.year, date.month - 1, date.day)
    ELSE Ymd(date.year - 1, 12, date.day)

Absent(ids) == [k \in ids |-> None]

\* what the latest period records
LatestRecords ==
    [median_price : {None, Some(Whole(400000))},
     average_price : {None, Some(Whole(380000)), Some(Whole(405000)), Some(Whole(420000)),
                      Some(Whole(480000))},
     sales_count : {None, Some(Whole(0)), Some(Whole(50))},
     active_listings : {None, Some(Whole(0)), Some(Whole(200))},
     days_on_market : {None, Some(Whole(25)), Some(Whole(45)), Some(Whole(75))},
     list_to_sale_ratio : {None, Some(R(96, 100)), Some(R(98, 100))}]

\* what the period a year before records
PriorYearRecords ==
    [median_price : {None, Some(Whole(0)), Some(Whole(380000))},
     average_price : {None},
     sales_count : {None, Some(Whole(40))},
     active_listings : {None, Some(Whole(150))},
     days_on_market : {None},
     list_to_sale_ratio : {None}]

\* what the period a month before records
PriorMonthRecords ==
    [median_price : {None, Some(Whole(390000))},
     average_price : {None},
     sales_count : {None},
     active_listings : {None},
     days_on_market : {None},
     list_to_sale_ratio : {None}]

\* metricsByDate with the three periods
MetricsByDate(latestDate, latest, priorYear, priorMonth) ==
    [d \in {latestDate, yearBefore(latestDate), monthBefore(latestDate)} |->
        IF d = latestDate THEN latest
        ELSE IF d = yearBefore(latestDate) THEN priorYear
        ELSE priorMonth]

InsightContexts ==
    {[latestDate |-> d,
      priorMonthDate |-> IF pm = Absent(InsightMetricIds) THEN None ELSE Some(monthBefore(d)),
      metricsByDate |-> MetricsByDate(d, l, py, pm),
      utcOffset |-> z] :
         d \in LatestDates, z \in UtcOffsets, l \in LatestRecords,
         py \in PriorYearRecords, pm \in PriorMonthRecords}

InitInsights ==
    /\ insightCtx \in {Some(c) : c \in InsightContexts}
    /\ insightBundle = NotCalled
    /\ ClassifierIdle
    /\ DetectorIdle
    /\ ValidatorIdle
    /\ ExtractorIdle
    /\ ResolverIdle
    /\ MapperIdle
    /\ NumericIdle
    /\ SeasonalIdle
    /\ RepeatIdle
    /\ BadgeIdle
    /\ StoreIdle

\* generateEnhancedInsights(ctx)
GenerateEnhancedInsights ==
    /\ insightBundle = NotCalled
    /\ insightBundle' = [called |-> TRUE, insights |-> generateEnhancedInsights(insightCtx[1])]
    /\ UNCHANGED <<insightCtx, classifierVars, detectorVars, validatorVars, extractorVars, resolverVars, mapperVars, numericVars, seasonalVars, repeatVars, badgeVars, storeVars>>

\* getMarketClassification(ctx), the dashboard badge, for the context the
\* insights were generated from
GetMarketClassification ==
    /\ insightBundle # NotCalled
    /\ badge = NotCalled
    /\ badge' = getMarketClassification(insightCtx[1])
    /\ UNCHANGED <<insightVars, classifierVars, detectorVars, validatorVars, extractorVars, resolverVars, mapperVars, numericVars, seasonalVars, repeatVars, storeVars>>

NextInsights == GenerateEnhancedInsights \/ GetMarketClassification

SpecInsights == InitInsights /\ [][NextInsights]_vars

----------------------------------------------------------------------------
(* Extraction of the same file twice, the second time no earlier than the   *)
(* first: src/unnamed/part_014 lines 305-470                                 *)

\* clock b is not before clock a
notBefore(a, b) == b.year > a.year \/ (b.year = a.year /\ b.month >= a.month)

InitExtractTwice ==
    /\ \/ workbook = [hasSheet |-> FALSE, rows |-> <<>>]
       \/ \E layout \in SheetLayouts :
             \E n \in 0..MaxRows :
                 \E body \in [1..n -> RowsOf(layout.columns)] :
                     workbook = [hasSheet |-> TRUE, rows |-> layout.fixed \o body]
    /\ clock \in Clocks
    /\ \E later \in Clocks : notBefore(clock, later) /\ laterClock = Some(later)
    /\ result = NotCalled
    /\ resultAgain = NotCalled
    /\ ClassifierIdle
    /\ DetectorIdle
    /\ ValidatorIdle
    /\ ResolverIdle
    /\ MapperIdle
    /\ NumericIdle
    /\ SeasonalIdle
    /\ InsightIdle
    /\ BadgeIdle
    /\ StoreIdle

\* extractFromFile(file) on the same file, after the first call returned
ExtractFromFileAgain ==
    /\ result # NotCalled
    /\ resultAgain = NotCalled
    /\ resultAgain' = extractFromFile(workbook, laterClock[1])
    /\ UNCHANGED <<laterClock, classifierVars, detectorVars, validatorVars, extractorVars, resolverVars, mapperVars, numericVars, seasonalVars, insightVars, badgeVars, storeVars>>

NextExtractTwice == ExtractFromFile \/ ExtractFromFileAgain

SpecExtractTwice == InitExtractTwice /\ [][NextExtractTwice]_vars

----------------------------------------------------------------------------
(* Saving metrics and caching AI insights:
   src/src/routes/upload/+page.server.ts lines 56-275 (import save and
   generateAndCacheInsights), src/unnamed/part_008 lines 20-66 (manual entry),
   src/src/lib/ai/openai-insights.ts lines 144-246 (generateAIInsights),
   src/supabase/migrations/001_initial_schema.sql lines 34-44 (metrics table) *)

PRIVATE_SINGLE_USER_ID == "single-user"

ALLOWED_METRIC_TYPE_IDS ==
    {"median_price", "average_price", "price_per_sqft", "active_listings",
     "sales_count", "days_on_market", "months_of_supply", "list_to_sale_ratio"}

METRIC_TYPE_IDS ==
    <<"median_price", "average_price", "price_per_sqft", "active_listings",
      "sales_count", "days_on_market", "months_of_supply", "list_to_sale_ratio">>

\* /^\d{4}-\d{2}-\d{2}$/.test(value)
isValidRecordedDate(value) ==
    /\ Len(value) = 10
    /\ \A i \in {1, 2, 3, 4, 6, 7, 9, 10} : IsDigit(value[i])
    /\ value[5] = "-"
    /\ value[8] = "-"

\* Number.isFinite(value)
isFinite(value) == value.d # 0

\* the first check of the upload action that a metric fails, None when it passes
rejection(metric) ==
    IF metric.metricTypeId \notin ALLOWED_METRIC_TYPE_IDS
    THEN Some([status |-> 400, error |-> "Unsupported metric type"])
    ELSE IF ~isValidRecordedDate(metric.recordedDate)
    THEN Some([status |-> 400, error |-> "Invalid recorded date"])
    ELSE IF ~isFinite(metric.value)
    THEN Some([status |-> 400, error |-> "Invalid value"])
    ELSE None

\* the upload action's loop over the metrics: the first rejection, if any
firstRejection(inputs) ==
    LET bad == {i \in 1..Len(inputs) : rejection(inputs[i]) # None}
    IN  IF bad = {} THEN None
        ELSE rejection(inputs[CHOOSE i \in bad : \A j \in bad : i <= j])

\* a row of metricsToInsert
metricRow(metricTypeId, recordedDate, value, manual) ==
    [user_id |-> PRIVATE_SINGLE_USER_ID,
     metric_type_id |-> metricTypeId,
     recorded_date |-> recordedDate,
     value |-> value,
     is_manually_entered |-> manual]

\* metrics.map(...) of the upload action
importRows(inputs) ==
    [i \in 1..Len(inputs) |->
         metricRow(inputs[i].metricTypeId, inputs[i].recordedDate, inputs[i].value, FALSE)]

\* the manual-entry loop over METRIC_TYPE_IDS from index i on: a row for every
\* field with a value that parses to a number
RECURSIVE manualRows(_, _, _)
manualRows(form, recordedDate, i) ==
    IF i > Len(METRIC_TYPE_IDS) THEN <<>>
    ELSE LET id == METRIC_TYPE_IDS[i]
             text == IF id \in DOMAIN form THEN form[id] ELSE <<>>
             numValue == parseFloat(trimStart(text))
             here == IF text # <<>> /\ trim(text) # <<>> /\ numValue # None
                     THEN <<metricRow(id, recordedDate, numValue[1], TRUE)>>
                     ELSE <<>>
         IN  here \o manualRows(form, recordedDate, i + 1)

\* the year, month and day of a text that isValidRecordedDate accepts
dateOfText(text) ==
    Ymd(digitsToNat(SubSeq(text, 1, 4)), digitsToNat(SubSeq(text, 6, 7)),
        digitsToNat(SubSeq(text, 9, 10)))

\* the DATE column takes the text when it names a day of the calendar
isCalendarDate(text) ==
    /\ isValidRecordedDate(text)
    /\ LET date == dateOfText(text)
       IN  /\ date.year >= 1
           /\ date.month \in 1..12
           /\ date.day \in 1..DaysInMonth(date.year, date.month)

\* UNIQUE(user_id, metric_type_id, recorded_date)
keyOf(row) == <<row.user_id, row.metric_type_id, row.recorded_date>>

\* the upsert is refused as a whole when a date is none or two of its rows
\* have the same key
upsertRefused(rows) ==
    \/ \E i \in 1..Len(rows) : ~isCalendarDate(rows[i].recorded_date)
    \/ \E i, j \in 1..Len(rows) : i # j /\ keyOf(rows[i]) = keyOf(rows[j])

\* the table with the rows added and no second row for a key
upsertMetrics_insertOnly(table, rows) ==
    table \cup {rows[i] : i \in 1..Len(rows)}

\* upsert(rows, { onConflict: 'user_id,metric_type_id,recorded_date' }): a row
\* replaces the stored row of its key
upsertMetrics(table, rows) ==
    {r \in table : \A i \in 1..Len(rows) : keyOf(rows[i]) # keyOf(r)}
        \cup {rows[i] : i \in 1..Len(rows)}

\* setMonth(getMonth() - months), the day carried into the next month when
\* the month is too short for it
setMonthBack(date, months) ==
    LET index == date.year * 12 + (date.month - 1) - months
        y == index \div 12
        m == (index % 12) + 1
    IN  IF date.day <= DaysInMonth(y, m) THEN Ymd(y, m, date.day)
        ELSE IF m = 12 THEN Ymd(y + 1, 1, date.day - DaysInMonth(y, m))
        ELSE Ymd(y, m + 1, date.day - DaysInMonth(y, m))

\* dates compare as their days do
dayNumber(date) == date.year * 10000 + date.month * 100 + date.day

\* select('*').eq('user_id', ...).gte('recorded_date', cutoff)
recentMetrics(table, today) ==
    {r \in table : /\ r.user_id = PRIVATE_SINGLE_USER_ID
                   /\ dayNumber(dateOfText(r.recorded_date))
                          >= dayNumber(setMonthBack(today, 15))}

\* metricsByDate[date][metricTypeId], None when there is no such entry
storedValue(rows, date, metricTypeId) ==
    LET hit == {r \in rows : r.recorded_date = date /\ r.metric_type_id = metricTypeId}
    IN  IF hit = {} THEN None ELSE Some((CHOOSE r \in hit : TRUE).value)

\* sortedDates[sortedDates.length - 1]
latestDateOf(rows) ==
    (CHOOSE r \in rows :
         \A q \in rows : dayNumber(dateOfText(q.recorded_date))
                             <= dayNumber(dateOfText(r.recorded_date))).recorded_date

\* sortedDates.find(...): the first date of the year before in the month of the latest
priorYearDateOf(rows, latest) ==
    LET hits == {r \in rows :
                    /\ dateOfText(r.recorded_date).year = dateOfText(latest).year - 1
                    /\ dateOfText(r.recorded_date).month = dateOfText(latest).month}
    IN  IF hits = {} THEN None
        ELSE Some((CHOOSE r \in hits :
                       \A q \in hits : dayNumber(dateOfText(r.recorded_date))
                                           <= dayNumber(dateOfText(q.recorded_date))).recorded_date)

\* calcYoY; None is null, and a value that is not there (undefined) is no null
calcYoY(current, prior) ==
    IF prior # None /\ prior[1].n = 0 /\ prior[1].d # 0 THEN None
    ELSE IF current = None \/ prior = None THEN Some(NaN)
    ELSE LET ratio == Div(Minus(current[1], prior[1]), prior[1])
         IN  Some(R(100 * ratio.n, ratio.d))

\* a value that is there, not 0 and not NaN
truthyNumber(value) == value # None /\ value[1].n # 0

ShortMonths ==
    <<"Jan", "Feb", "Mar", "Apr", "May", "Jun", "Jul", "Aug", "Sep", "Oct", "Nov", "Dec">>

\* { current: latestData.x ?? null, yoyChange: calcYoY(latestData.x, priorYearData.x) }
summaryEntry(rows, latest, priorYear, metricTypeId) ==
    LET current == storedValue(rows, latest, metricTypeId)
        prior == IF priorYear = None THEN None
                 ELSE storedValue(rows, priorYear[1], metricTypeId)
    IN  [current |-> current, yoyChange |-> calcYoY(current, prior)]

\* the MarketSummary of the fetched rows
summaryOf(rows) ==
    LET latest == latestDateOf(rows)
        priorYear == priorYearDateOf(rows, latest)
        active == storedValue(rows, latest, "active_listings")
        sales == storedValue(rows, latest, "sales_count")
    IN  [latestDate |-> <<ShortMonths[dateOfText(latest).month], dateOfText(latest).year>>,
         medianPrice |-> summaryEntry(rows, latest, priorYear, "median_price"),
         averagePrice |-> summaryEntry(rows, latest, priorYear, "average_price"),
         salesCount |-> summaryEntry(rows, latest, priorYear, "sales_count"),
         activeListings |-> summaryEntry(rows, latest, priorYear, "active_listings"),
         daysOnMarket |-> summaryEntry(rows, latest, priorYear, "days_on_market"),
         monthsOfSupply |-> IF truthyNumber(active) /\ truthyNumber(sales)
                            THEN Some(Div(active[1], sales[1])) ELSE None,
         pricePerSqft |-> summaryEntry(rows, latest, priorYear, "price_per_sqft")]

\* generateAIInsights: dataPoints.length > 0
hasDataPoints(summary) ==
    \/ truthyNumber(summary.medianPrice.current)
    \/ truthyNumber(summary.averagePrice.current)
    \/ truthyNumber(summary.salesCount.current)
    \/ truthyNumber(summary.activeListings.current)
    \/ truthyNumber(summary.daysOnMarket.current)
    \/ truthyNumber(summary.monthsOfSupply)

EmptyResult == [insights |-> <<>>, marketCondition |-> None]

\* what the model writes about a summary: insights and a market condition
insightsAbout(summary) ==
    [insights |-> <<[about |-> summary]>>, marketCondition |-> Some([about |-> summary])]

\* what generateAIInsights can return for a summary: nothing when there are
\* no data points, the request fails or the answer does not parse
aiResults(summary) ==
    {EmptyResult} \cup (IF hasDataPoints(summary) THEN {insightsAbout(summary)} ELSE {})

\* upsert({...}, { onConflict: 'user_id' }) on ai_insights
upsertInsights(table, found) ==
    {r \in table : r.user_id # PRIVATE_SINGLE_USER_ID}
        \cup {[user_id |-> PRIVATE_SINGLE_USER_ID,
               insights |-> found.insights,
               market_condition |-> found.marketCondition]}

\* a background call of generateAndCacheInsights that has not read the metrics yet
Started == [pc |-> "fetch", summary |-> None, wrote |-> FALSE]

\* the number of imports saved in a run
MaxImports == 2

\* the day the requests are made
Today == Ymd(2024, 3, 15)

MetricInput(metricTypeId, value, recordedDate) ==
    [metricTypeId |-> metricTypeId, value |-> value, recordedDate |-> recordedDate]

\* the metrics JSON of the upload requests
ImportRequests ==
    {<<MetricInput("median_price", Whole(1), <<"2", "0", "2", "4", "-", "0", "1", "-", "0", "1">>)>>,
     <<MetricInput("median_price", Whole(2), <<"2", "0", "2", "4", "-", "0", "1", "-", "0", "1">>),
       MetricInput("median_price", Whole(1), <<"2", "0", "2", "4", "-", "0", "2", "-", "0", "1">>)>>,
     <<MetricInput("median_price", Whole(2), <<"2", "0", "2", "4", "-", "0", "2", "-", "0", "1">>),
       MetricInput("sales_count", Whole(1), <<"2", "0", "2", "4", "-", "0", "2", "-", "0", "1">>)>>,
     <<MetricInput("median_price", Whole(1), <<"2", "0", "2", "3", "-", "0", "2", "-", "0", "1">>),
       MetricInput("sales_count", Whole(0), <<"2", "0", "2", "3", "-", "0", "2", "-", "0", "1">>)>>,
     <<MetricInput("list_to_sale_ratio", Whole(1), <<"2", "0", "2", "4", "-", "0", "3", "-", "0", "1">>)>>,
     <<MetricInput("sales_count", Whole(2), <<"2", "0", "2", "2", "-", "1", "1", "-", "0", "1">>)>>,
     <<MetricInput("median_price", Whole(1), <<"2", "0", "2", "4", "-", "0", "1", "-", "0", "1">>),
       MetricInput("median_price", Whole(2), <<"2", "0", "2", "4", "-", "0", "1", "-", "0", "1">>)>>,
     <<MetricInput("median_price", Whole(1), <<"2", "0", "2", "4", "-", "1", "3", "-", "0", "1">>)>>,
     <<MetricInput("median_price", Whole(1), <<"2", "0", "2", "4", "-", "1", "-", "0", "1">>)>>,
     <<MetricInput("zestimate", Whole(1), <<"2", "0", "2", "4", "-", "0", "1", "-", "0", "1">>)>>,
     <<MetricInput("median_price", Infinity, <<"2", "0", "2", "4", "-", "0", "1", "-", "0", "1">>)>>,
     <<>>}

\* the fields of the manual-entry form
ManualRequests ==
    {[recordedDate |-> month, form |-> fields] :
        month \in {<<>>, <<"2", "0", "2", "4", "-", "0", "1">>},
        fields \in {[median_price |-> <<"2">>],
                    [median_price |-> <<"3", " ">>, sales_count |-> <<"2">>],
                    [median_price |-> <<"a", "b", "c">>, sales_count |-> <<" ">>]}}

InitSave ==
    /\ metricsTable = {}
    /\ aiInsights = {}
    /\ upserted = <<>>
    /\ saveResponse = NotCalled
    /\ generations = <<>>
    /\ ClassifierIdle
    /\ DetectorIdle
    /\ ValidatorIdle
    /\ ExtractorIdle
    /\ ResolverIdle
    /\ MapperIdle
    /\ NumericIdle
    /\ SeasonalIdle
    /\ InsightIdle
    /\ RepeatIdle
    /\ BadgeIdle

OtherVars ==
    <<classifierVars, detectorVars, validatorVars, extractorVars, resolverVars,
      mapperVars, numericVars, seasonalVars, insightVars, repeatVars, badgeVars>>

\* the upload action: validate, upsert, start generateAndCacheInsights and
\* answer without waiting for it
ImportSave ==
    /\ Len(generations) < MaxImports
    /\ \E inputs \in ImportRequests :
        IF inputs = <<>>
        THEN /\ saveResponse' = [status |-> 400, error |-> "No metrics to save"]
             /\ UNCHANGED <<metricsTable, aiInsights, upserted, generations>>
        ELSE IF firstRejection(inputs) # None
        THEN /\ saveResponse' = firstRejection(inputs)[1]
             /\ UNCHANGED <<metricsTable, aiInsights, upserted, generations>>
        ELSE IF upsertRefused(importRows(inputs))
        THEN /\ saveResponse' = [status |-> 500, error |-> "Failed to save metrics"]
             /\ UNCHANGED <<metricsTable, aiInsights, upserted, generations>>
        ELSE /\ metricsTable' = upsertMetrics(metricsTable, importRows(inputs))
             /\ upserted' = importRows(inputs)
             /\ generations' = Append(generations, Started)
             /\ saveResponse' = [status |-> 200, success |-> TRUE]
             /\ UNCHANGED aiInsights
    /\ UNCHANGED OtherVars

\* the manual-entry action
ManualSave ==
    /\ \E request \in ManualRequests :
        LET rows == manualRows(request.form, request.recordedDate \o <<"-", "0", "1">>, 1)
        IN  IF request.recordedDate = <<>>
            THEN /\ saveResponse' = [status |-> 400, error |-> "Report month is required"]
                 /\ UNCHANGED <<metricsTable, upserted>>
            ELSE IF rows = <<>>
            THEN /\ saveResponse' = [status |-> 400, error |-> "Please enter at least one metric value"]
                 /\ UNCHANGED <<metricsTable, upserted>>
            ELSE IF upsertRefused(rows)
            THEN /\ saveResponse' = [status |-> 500, error |-> "Failed to save metrics"]
                 /\ UNCHANGED <<metricsTable, upserted>>
            ELSE /\ metricsTable' = upsertMetrics(metricsTable, rows)
                 /\ upserted' = rows
                 /\ saveResponse' = [status |-> 200, success |-> TRUE]
    /\ UNCHANGED <<aiInsights, generations, OtherVars>>

\* generateAndCacheInsights up to the call of generateAIInsights: the rows
\* of the last 15 months are read and summarized; it returns when there are none
FetchMetrics ==
    /\ \E g \in 1..Len(generations) :
        /\ generations[g].pc = "fetch"
        /\ LET rows == recentMetrics(metricsTable, Today)
           IN  generations' =
                   [generations EXCEPT ![g] =
                       IF rows = {} THEN [pc |-> "done", summary |-> None, wrote |-> FALSE]
                       ELSE [pc |-> "ask", summary |-> Some(summaryOf(rows)), wrote |-> FALSE]]
    /\ UNCHANGED <<metricsTable, aiInsights, upserted, saveResponse, OtherVars>>

\* generateAIInsights returns and its result is cached when there is one;
\* an error of the upsert is not looked at
CacheInsights ==
    /\ \E g \in 1..Len(generations) :
        /\ generations[g].pc = "ask"
        /\ \E found \in aiResults(generations[g].summary[1]), stored \in BOOLEAN :
            LET writes == (Len(found.insights) > 0 \/ found.marketCondition # None) /\ stored
            IN  /\ aiInsights' = IF writes THEN upsertInsights(aiInsights, found)
                                 ELSE aiInsights
                /\ generations' = [generations EXCEPT ![g] =
                                      [pc |-> "done", summary |-> None, wrote |-> writes]]
    /\ UNCHANGED <<metricsTable, upserted, saveResponse, OtherVars>>

NextSave == ImportSave \/ ManualSave \/ FetchMetrics \/ CacheInsights

SpecSave == InitSave /\ [][NextSave]_vars

NextImports == ImportSave \/ FetchMetrics \/ CacheInsights

SpecImports == InitSave /\ [][NextImports]_vars

----------------------------------------------------------------------------
(* Claims about the market condition classifier, checked under SpecClassify *)

SuppliedSignals == {k \in Signals : metrics[k] # None}

FactorOf(k) ==
    classification.factors[CHOOSE i \in 1..Len(classification.factors) :
                               classification.factors[i].metric = FactorLabel[k]]

OneFactorPerSuppliedSignal ==
    /\ Len(classification.factors) = Cardinality(SuppliedSignals)
    /\ \A k \in SuppliedSignals :
          \E i \in 1..Len(classification.factors) :
              classification.factors[i].metric = FactorLabel[k]

RECURSIVE WeightOf(_)
WeightOf(S) ==
    IF S = {} THEN 0
    ELSE LET k == CHOOSE x \in S : TRUE IN WEIGHTS[k] + WeightOf(S \ {k})

SidedWeight(side) == WeightOf({k \in SuppliedSignals : FactorOf(k).indicator = side})

\* C1: with at least one signal supplied, the result follows the ratios of the
\* sellers and buyers weights to the weight of the supplied signals: sellers at
\* >= 0.6, else buyers at >= 0.6 (high at >= 0.8, else medium), else balanced
\* with high when both ratios < 0.4, medium when the larger < 0.5, else low.
C1_RatioRule ==
    (classification.called /\ SuppliedSignals # {}) =>
        /\ OneFactorPerSuppliedSignal
        /\ LET s == SidedWeight("sellers")
               b == SidedWeight("buyers")
               t == WeightOf(SuppliedSignals)
               larger == IF s > b THEN s ELSE b
           IN  IF 10 * s >= 6 * t
               THEN /\ classification.condition = "sellers"
                    /\ classification.confidence = (IF 10 * s >= 8 * t THEN "high" ELSE "medium")
               ELSE IF 10 * b >= 6 * t
               THEN /\ classification.condition = "buyers"
                    /\ classification.confidence = (IF 10 * b >= 8 * t THEN "high" ELSE "medium")
               ELSE /\ classification.condition = "balanced"
                    /\ classification.confidence =
                          (IF 10 * s < 4 * t /\ 10 * b < 4 * t THEN "high"
                           ELSE IF 10 * larger < 5 * t THEN "medium" ELSE "low")

\* C1 witness: months of supply (weight 3) says sellers, days on market (weight 2)
\* does not: the sellers ratio is exactly 0.6 and the result is sellers/medium.
C1_Witness ==
    /\ classification.called
    /\ SuppliedSignals = {"monthsOfSupply", "daysOnMarket"}
    /\ FactorOf("monthsOfSupply").indicator = "sellers"
    /\ FactorOf("daysOnMarket").indicator = "balanced"
    /\ classification.condition = "sellers"
    /\ classification.confidence = "medium"

\* the side the fixed thresholds give a signal value v = n/d
ThresholdSide(k, v) ==
    CASE k = "monthsOfSupply" ->
           IF v.n < 4 * v.d THEN "sellers" ELSE IF v.n > 6 * v.d THEN "buyers" ELSE "balanced"
      [] k = "daysOnMarket" ->
           IF v.n < 30 * v.d THEN "sellers" ELSE IF v.n > 60 * v.d THEN "buyers" ELSE "balanced"
      [] k = "listToSaleRatio" ->
           IF 100 * v.n >= 100 * v.d THEN "sellers"
           ELSE IF 100 * v.n < 97 * v.d THEN "buyers" ELSE "balanced"
      [] k = "priceYoYChange" ->
           IF v.n >= 5 * v.d THEN "sellers" ELSE IF v.n <= 0 THEN "buyers" ELSE "balanced"

FixedWeight(k) ==
    CASE k = "monthsOfSupply" -> 3
      [] k = "daysOnMarket" -> 2
      [] k = "listToSaleRatio" -> 2
      [] k = "priceYoYChange" -> 1

\* C2: every supplied signal gets a factor whose indicator is the side its own
\* value has under the fixed thresholds, with the fixed weight; 4, 6, 30 and 60
\* are balanced, 1.00 and 5 are sellers, 0 is buyers.
C2_PerSignalThresholds ==
    classification.called =>
        \A k \in SuppliedSignals :
            /\ \E i \in 1..Len(classification.factors) :
                   classification.factors[i].metric = FactorLabel[k]
            /\ FactorOf(k).value = metrics[k][1]
            /\ FactorOf(k).indicator = ThresholdSide(k, metrics[k][1])
            /\ FactorOf(k).weight = FixedWeight(k)

\* C2 witness: all four signals supplied on a boundary value.
C2_Witness ==
    /\ classification.called
    /\ metrics.monthsOfSupply = Some(Whole(4))
    /\ metrics.daysOnMarket = Some(Whole(60))
    /\ metrics.listToSaleRatio = Some(R(100, 100))
    /\ metrics.priceYoYChange = Some(Whole(0))
    /\ FactorOf("monthsOfSupply").indicator = "balanced"
    /\ FactorOf("daysOnMarket").indicator = "balanced"
    /\ FactorOf("listToSaleRatio").indicator = "sellers"
    /\ FactorOf("priceYoYChange").indicator = "buyers"

\* C3: the result is always one of the three conditions, and with no signal
\* supplied it is balanced, low confidence, with no factors.
C3_NoSignalDefault ==
    classification.called =>
        /\ classification.condition \in {"sellers", "buyers", "balanced"}
        /\ SuppliedSignals = {} =>
              /\ classification.condition = "balanced"
              /\ classification.confidence = "low"
              /\ classification.factors = <<>>

\* C3 witness: classifyMarket has returned for the empty input.
C3_Witness ==
    /\ classification.called
    /\ SuppliedSignals = {}
    /\ classification.confidence = "low"

\* C4: when every supplied signal indicates the same side (sellers, buyers or
\* balanced), that side is the overall condition, with confidence high.
C4_UnanimousIsHigh ==
    (classification.called /\ SuppliedSignals # {}) =>
        \A side \in {"sellers", "buyers", "balanced"} :
            (\A k \in SuppliedSignals : ThresholdSide(k, metrics[k][1]) = side) =>
                /\ classification.condition = side
                /\ classification.confidence = "high"

\* C4 witness: months of supply 8 and days on market 75 alone give buyers/high.
C4_Witness ==
    /\ classification.called
    /\ metrics.monthsOfSupply = Some(Whole(8))
    /\ metrics.daysOnMarket = Some(Whole(75))
    /\ metrics.listToSaleRatio = None
    /\ metrics.priceYoYChange = None
    /\ classification.condition = "buyers"
    /\ classification.confidence = "high"

----------------------------------------------------------------------------
(* Claims about the inflection point detector, checked under SpecInflection *)

\* what the two detectors produce for the argument, before ranking
MergedCandidates == IF tooFewPoints(data) THEN <<>> ELSE candidates(sortByDate(data))

Count(s, x) == Cardinality({i \in 1..Len(s) : s[i] = x})

\* the candidates c that are not in the returned list pts
DiscardedOf(c, pts) ==
    {c[i] : i \in {j \in 1..Len(c) : Count(c, c[j]) > Count(pts, c[j])}}

\* C5: at most 5 points are returned, in ascending date order; they are
\* candidates of the merged detectors, as many as the cap allows, and no
\* discarded candidate has a strictly greater magnitude than a returned one.
C5_TopFiveByDate ==
    inflections.called =>
        LET pts == inflections.points
            c == MergedCandidates
            least == CHOOSE m \in {pts[i].magnitude : i \in 1..Len(pts)} :
                         \A i \in 1..Len(pts) : ~Lt(pts[i].magnitude, m)
        IN  /\ Len(pts) <= 5
            /\ \A i \in 1..Len(pts) - 1 : pts[i].date <= pts[i + 1].date
            /\ \A i \in 1..Len(pts) : Count(pts, pts[i]) <= Count(c, pts[i])
            /\ Len(pts) = (IF Len(c) < 5 THEN Len(c) ELSE 5)
            /\ Len(c) > 5 => \A x \in DiscardedOf(c, pts) : ~Lt(least, x.magnitude)

\* C5 witness: more than 5 candidates, given latest first, and a candidate of
\* strictly smaller magnitude than a returned one was dropped.
C5_Witness ==
    /\ inflections.called
    /\ Len(MergedCandidates) > 5
    /\ Len(inflections.points) = 5
    /\ Len(data) > 1 /\ data[1].date > data[2].date
    /\ \E x \in DiscardedOf(MergedCandidates, inflections.points) :
          \E i \in 1..5 : Lt(x.magnitude, inflections.points[i].magnitude)

PeakIndexes == {i \in 1..Len(inflections.points) : inflections.points[i].type = "peak"}

OnePeakAt(date) ==
    /\ Cardinality(PeakIndexes) = 1
    /\ \A i \in PeakIndexes :
          /\ inflections.points[i].date = date
          /\ inflections.points[i].value = 130
          /\ Le(Whole(23), inflections.points[i].magnitude)

\* C6 as stated: the three-point series [100, 130, 100] yields exactly one
\* peak, at the middle point, of magnitude at least 23.
C6_ThreePointPeak ==
    (inflections.called /\ data = SeriesOf("ascending", <<100, 130, 100>>)) => OnePeakAt(2)

\* C6 amended: the three-point series is below the 5-point minimum and yields
\* nothing; a chronological five-point series whose middle three values are
\* 100, 130, 100 yields exactly one peak, at the middle point, of magnitude
\* at least 23.
C6_FivePointPeak ==
    inflections.called =>
        /\ data = SeriesOf("ascending", <<100, 130, 100>>) => inflections.points = <<>>
        /\ \A a, b \in SeriesValues :
              data = SeriesOf("ascending", <<a, 100, 130, 100, b>>) => OnePeakAt(3)

\* C6 witness: the detector has run on [100, 100, 130, 100, 100].
C6_Witness ==
    /\ inflections.called
    /\ data = SeriesOf("ascending", <<100, 100, 130, 100, 100>>)
    /\ Len(inflections.points) = 1
    /\ inflections.points[1].type = "peak"

\* C7: a series of fewer than 5 points yields the empty list.
C7_ShortSeriesEmpty ==
    (inflections.called /\ Len(data) < 5) => inflections.points = <<>>

\* C7 witness: four points with a 30 percent interior peak, and nothing returned.
C7_Witness ==
    /\ inflections.called
    /\ data = SeriesOf("ascending", <<100, 130, 100, 100>>)
    /\ inflections.points = <<>>

----------------------------------------------------------------------------
(* Claims about the metric validators, checked under SpecValidate *)

\* the value lies strictly outside the table's bounds for the id
OutsideBounds(table, id, v) ==
    /\ id \in DOMAIN table
    /\ Lt(v, table[id].min) \/ Lt(table[id].max, v)

ViolatedBound(table, id, v) == IF Lt(v, table[id].min) THEN table[id].min ELSE table[id].max

\* C8: each validator flags a value exactly when the id is in the bounds table
\* and the value is strictly below the minimum or strictly above the maximum
\* (a value equal to a bound is not flagged, an unknown id never is); a
\* flagged result has a reason naming the violated bound; and both validators
\* give the same isOutlier.
C8_StrictBounds ==
    LET id == valArgs.metricTypeId
        v == valArgs.value
    IN  /\ validation.called =>
              /\ validation.result.isOutlier <=> OutsideBounds(VALIDATION_BOUNDS, id, v)
              /\ validation.result.isOutlier =>
                    /\ validation.result.reason # None
                    /\ validation.result.reason[1].bound = ViolatedBound(VALIDATION_BOUNDS, id, v)
              /\ id \notin DOMAIN VALIDATION_BOUNDS => ~validation.result.isOutlier
              /\ (id \in DOMAIN VALIDATION_BOUNDS /\ v \in {VALIDATION_BOUNDS[id].min, VALIDATION_BOUNDS[id].max})
                    => ~validation.result.isOutlier
        /\ libValidation.called =>
              /\ libValidation.result.isOutlier <=> OutsideBounds(METRIC_BOUNDS, id, v)
              /\ libValidation.result.isOutlier =>
                    /\ libValidation.result.reason # None
                    /\ libValidation.result.reason[1].bound.of = ViolatedBound(METRIC_BOUNDS, id, v)
        /\ (validation.called /\ libValidation.called) =>
              validation.result.isOutlier = libValidation.result.isOutlier

\* C8 witness: both validators have flagged a list-to-sale ratio of 1.51.
C8_Witness ==
    /\ validation.called
    /\ libValidation.called
    /\ valArgs = [metricTypeId |-> "list_to_sale_ratio", value |-> R(151, 100)]
    /\ validation.result.isOutlier
    /\ libValidation.result.isOutlier

----------------------------------------------------------------------------
(* Claims about the row extractor                                            *)

\* the date (or warning) of every data row of the resolved sheet h
RowDates(h) ==
    [r \in 1..Len(h.data) |-> rowDate(h.headers, h.mapping, h.data[r], r - 1, clock)]

\* the cell of every data row under every mapped header
MappedCells(h) ==
    [p \in (1..Len(h.data)) \X (1..Len(h.mapping.headerMap)) |->
        lookup(h.headers, h.data[p[1]], h.mapping.headerMap[p[2]][1])]

\* C9: an outlier flag never removes or changes data during extraction: the
\* records are, in order, exactly the mapped non-empty cells of dated rows
\* that parse to a number, each with its parsed value unchanged and its
\* metric type and row date, flagged or not; and when there is any record
\* (flagged or not) the extraction succeeds with no error
C9_OutliersKept ==
    (result.called /\ workbook.hasSheet /\ Len(workbook.rows) > 0) =>
        LET h == resolveHeaders(workbook.rows)
            dates == RowDates(h)
            cell == MappedCells(h)
            parsed == [p \in DOMAIN cell |-> parseNumericValue(cell[p])]
            cells == {p \in DOMAIN cell :
                         dates[p[1]].ok /\ ~isBlank(cell[p]) /\ parsed[p] # None}
            rank == [p \in cells |->
                        Cardinality({q \in cells :
                                        q[1] < p[1] \/ (q[1] = p[1] /\ q[2] <= p[2])})]
        IN  /\ Len(result.metrics) = Cardinality(cells)
            /\ \A p \in cells :
                  LET rec == result.metrics[rank[p]]
                  IN  /\ rec.value = parsed[p][1]
                      /\ rec.metricTypeId = h.mapping.headerMap[p[2]][2]
                      /\ rec.recordedDate = dates[p[1]].date
                      /\ rec.isOutlier
                            = OutsideBounds(VALIDATION_BOUNDS, rec.metricTypeId, parsed[p][1])
            /\ (cells # {} => result.success /\ result.errors = <<>>)

\* C9 witness: an extraction that returned a flagged record next to an
\* unflagged one, and succeeded
C9_Witness ==
    /\ result.called
    /\ result.success
    /\ \E i, j \in 1..Len(result.metrics) :
          result.metrics[i].isOutlier /\ ~result.metrics[j].isOutlier

\* YYYY-MM-DD with a month 01-12 and a day that month has
IsCalendarDate(s) ==
    /\ Len(s) = 10
    /\ s[5] = "-" /\ s[8] = "-"
    /\ \A i \in {1, 2, 3, 4, 6, 7, 9, 10} : IsDigit(s[i])
    /\ LET y == digitsToNat(SubSeq(s, 1, 4))
           m == digitsToNat(SubSeq(s, 6, 7))
           d == digitsToNat(SubSeq(s, 9, 10))
       IN  m \in 1..12 /\ d \in 1..DaysInMonth(y, m)

\* C10: every record produced by extraction has a recordedDate that is a
\* valid calendar date in YYYY-MM-DD form (month 01-12, day valid for that
\* month), and a row whose date cells resolve to no date adds a warning
C10_ValidRecordedDates ==
    result.called =>
        /\ \A i \in 1..Len(result.metrics) : IsCalendarDate(result.metrics[i].recordedDate)
        /\ (workbook.hasSheet /\ Len(workbook.rows) > 0) =>
              LET h == resolveHeaders(workbook.rows)
                  dates == RowDates(h)
              IN  Len(h.mapping.headerMap) > 0 =>
                      \A r \in 1..Len(h.data) :
                          ~dates[r].ok =>
                              \E w \in 1..Len(result.warnings) :
                                  result.warnings[w].row = r + 1

\* C11: a record is dated with the first day of the current month only when
\* the sheet has neither a date column nor a complete month+year pair, and
\* then the result carries the warning about the missing date column; with a
\* date column (or month+year pair) no record gets the current-month default
\* (no date cell of the modelled sheets lies in the clock's month)
C11_DefaultOnlyWithoutDateColumns ==
    (result.called /\ workbook.hasSheet /\ Len(workbook.rows) > 0) =>
        LET h == resolveHeaders(workbook.rows)
        IN  \A i \in 1..Len(result.metrics) :
                result.metrics[i].recordedDate = currentMonth(clock) =>
                    /\ h.mapping.dateColumn = None
                    /\ ~(h.mapping.monthColumn # None /\ h.mapping.yearColumn # None)
                    /\ \E w \in 1..Len(result.warnings) :
                          result.warnings[w] = NoDateColumnWarning

(* Claims about date resolution, checked under SpecParseDate *)

\* four digits, a dash, two digits, a dash, two digits
IsCanonicalForm(s) ==
    /\ Len(s) = 10
    /\ s[5] = "-" /\ s[8] = "-"
    /\ \A i \in {1, 2, 3, 4, 6, 7, 9, 10} : IsDigit(s[i])

MetricsWithAlias(text) ==
    {MetricOrder[m] : m \in {k \in 1..Len(MetricOrder) :
                                IsIn(HEADER_MAPPINGS[MetricOrder[k]], text)}}

\* the mapping has the entry header -> metric id
MapsTo(mapping, header, metricType) ==
    \E i \in 1..Len(mapping.headerMap) : mapping.headerMap[i] = <<header, metricType>>

\* C13: a header whose normalized text equals an alias listed for a metric id
\* is mapped to that metric id, for every alias of the table and for every
\* header the import page lists as expected
C13_AliasMapsToItsMetric ==
    headerMapping.called =>
        \A i \in 1..Len(headerRow) :
            \A metricType \in MetricsWithAlias(normalizeHeader(headerRow[i])) :
                MapsTo(headerMapping.mapping, headerRow[i], metricType)

(* Claims about year-to-date columns, checked under SpecExtract *)

ContainsYtd(header) == includes(normalizeHeader(header), <<"y", "t", "d">>)

\* C14: a header whose normalized text contains "ytd" is never mapped to a
\* metric id and never used as the date, month or year column, with the
\* headers taken from the first row or from a row adopted by the fallback
\* discovery; so every record's value is the parsed cell of a column whose
\* header does not contain "ytd"
C14_YtdNeverMapped ==
    (result.called /\ workbook.hasSheet /\ Len(workbook.rows) > 0) =>
        LET h == resolveHeaders(workbook.rows)
            entries == h.mapping.headerMap
        IN  /\ \A i \in 1..Len(h.headers) :
                  ContainsYtd(h.headers[i]) =>
                      /\ \A k \in 1..Len(entries) : entries[k][1] # h.headers[i]
                      /\ h.mapping.dateColumn # Some(h.headers[i])
                      /\ h.mapping.monthColumn # Some(h.headers[i])
                      /\ h.mapping.yearColumn # Some(h.headers[i])
            /\ \A n \in 1..Len(result.metrics) :
                  \E r \in 1..Len(h.data), i \in 1..Len(h.headers) :
                      /\ ~ContainsYtd(h.headers[i])
                      /\ parseNumericValue(lookup(h.headers, h.data[r], h.headers[i]))
                            = Some(result.metrics[n].value)

\* C14 witness: a successful extraction from a sheet whose header row, adopted
\* from below a banner row, has a year-to-date column with numbers in it
C14_Witness ==
    /\ result.called
    /\ result.success
    /\ Len(workbook.rows) > 2
    /\ LET h == resolveHeaders(workbook.rows)
       IN  /\ h.headers # sheetKeys(workbook.rows[1])
           /\ \E i \in 1..Len(h.headers) :
                 /\ ContainsYtd(h.headers[i])
                 /\ workbook.rows[3][i].t = "num"

(* Claims about title rows, checked under SpecExtract *)

\* the first row holds one title text and nothing else, the second row only
\* texts, and data rows follow
HasBannerRow ==
    /\ workbook.hasSheet
    /\ Len(workbook.rows) > 2
    /\ workbook.rows[1][1].t = "str"
    /\ \A i \in 2..Len(workbook.rows[1]) : workbook.rows[1][i].t = "null"
    /\ \A i \in 1..Len(workbook.rows[2]) : workbook.rows[2][i].t = "str"

\* the extraction of the sheet equals, in header row, data rows, records and
\* success, the extraction of the sheet without its first row
ExtractedBelowBanner ==
    LET h == resolveHeaders(workbook.rows)
        plain == extractFromFile([hasSheet |-> TRUE, rows |-> Tail(workbook.rows)], clock)
    IN  /\ h.headers = candidateHeaders(workbook.rows[2])
        /\ h.data = SubSeq(workbook.rows, 3, Len(workbook.rows))
        /\ result.metrics = plain.metrics
        /\ result.success = plain.success

\* the second row, read as headers, has a metric column
SecondRowHasMetrics == Len(mapHeaders(candidateHeaders(workbook.rows[2])).headerMap) > 0

\* C15 as stated: a sheet whose first row is a title or banner and whose
\* second row holds headers matching metric aliases, followed by data rows,
\* is extracted through header-row discovery: the second row is adopted as
\* the header row and the rows beneath it yield the records
C15_BannerRowSkipped ==
    (result.called /\ HasBannerRow /\ SecondRowHasMetrics) => ExtractedBelowBanner

(* Claims about the extraction result, checked under SpecExtract *)

\* no sheet, no data row, or no metric column after the fallback scan
BatchFatal ==
    \/ ~workbook.hasSheet
    \/ Len(workbook.rows) = 0
    \/ Len(dropBlankRows(Tail(workbook.rows))) = 0
    \/ Len(resolveHeaders(workbook.rows).mapping.headerMap) = 0

\* C16: success is true if and only if the result has at least one metric
\* record, and every batch-fatal outcome (no sheet, no rows, no recognizable
\* metric column after the fallback scan) returns success false with no
\* record and a non-empty error list
C16_SuccessIffRecords ==
    result.called =>
        /\ result.success <=> Len(result.metrics) > 0
        /\ BatchFatal =>
              /\ ~result.success
              /\ result.metrics = <<>>
              /\ Len(result.errors) > 0

\* C16 witness: an extraction that ended for want of a metric column, on a
\* sheet that has data rows
C16_Witness ==
    /\ result.called
    /\ workbook.hasSheet
    /\ Len(workbook.rows) > 1
    /\ BatchFatal
    /\ ~result.success

\* the sheet without its n-th row
WithoutRow(n) ==
    [workbook EXCEPT !.rows = SubSeq(@, 1, n - 1) \o SubSeq(@, n + 1, Len(@))]

\* the sheet with the i-th cell of its n-th row emptied
WithEmptyCell(n, i) == [workbook EXCEPT !.rows[n][i] = NullCell]

\* C17: extraction isolates failures: a row whose date does not resolve adds
\* one warning and the records are those of the sheet without that row; a
\* mapped cell that does not parse to a number adds one warning and the
\* records are those of the sheet with that cell empty; so every other cell
\* and row, up to the last, yields its records
C17_FailuresIsolated ==
    (result.called /\ workbook.hasSheet /\ Len(workbook.rows) > 0) =>
        LET h == resolveHeaders(workbook.rows)
            dates == RowDates(h)
            above == Len(workbook.rows) - Len(h.data)
            mapped == {i \in 1..Len(h.headers) :
                          \E k \in 1..Len(h.mapping.headerMap) :
                              h.mapping.headerMap[k][1] = h.headers[i]}
        IN  Len(h.mapping.headerMap) > 0 =>
                \A r \in 1..Len(h.data) :
                    /\ ~dates[r].ok =>
                          LET other == extractFromFile(WithoutRow(above + r), clock)
                          IN  /\ result.metrics = other.metrics
                              /\ Len(result.warnings) = Len(other.warnings) + 1
                    /\ \A i \in mapped :
                          (/\ dates[r].ok
                           /\ ~isBlank(h.data[r][i])
                           /\ parseNumericValue(h.data[r][i]) = None) =>
                              LET other == extractFromFile(WithEmptyCell(above + r, i), clock)
                              IN  /\ result.metrics = other.metrics
                                  /\ Len(result.warnings) = Len(other.warnings) + 1

\* C17 witness: the first data row's date did not resolve, the second data
\* row has a cell that does not parse, and the second row still gave a record
C17_Witness ==
    /\ result.called
    /\ result.success
    /\ workbook.hasSheet
    /\ Len(workbook.rows) = 3
    /\ LET h == resolveHeaders(workbook.rows)
           dates == RowDates(h)
       IN  /\ Len(h.data) = 2
           /\ ~dates[1].ok
           /\ dates[2].ok
           /\ \E i \in 1..Len(h.headers) :
                 h.data[2][i].t = "str" /\ h.data[2][i].text = <<"n", "/", "a">>

(* Claims about numeric parsing, checked under SpecParseNumeric *)

\* the number a formatted text stands for: the digits without separators and
\* symbols, negative in parentheses, divided by 100 with a percent sign
NumberOf(p) ==
    LET scale == pow10(Len(p.fraction))
        magnitude == p.whole * scale + digitsToNat(p.fraction)
    IN  R(IF p.parenthesised THEN -magnitude ELSE magnitude,
          IF p.percent THEN scale * 100 ELSE scale)

\* C18: numeric parsing of a text cell strips currency symbols, percent signs
\* and thousands separators, takes a value in parentheses as negative and
\* divides by 100 when the text has a percent sign ("98%" gives 0.98,
\* "(1,200)" gives -1200, "$450,000" gives 450000); a numeric cell is
\* returned unchanged; a text without a parseable number gives null
C18_NumericParsing ==
    numeric.called =>
        /\ \A p \in NumberParts :
               numericCell = StrCell(NumberText(p)) => numeric.value = Some(NumberOf(p))
        /\ numericCell.t = "num" => numeric.value = Some(numericCell.num)
        /\ (numericCell.t = "str" /\ numericCell.text \in NumberlessTexts) =>
               numeric.value = None
        /\ numericCell = StrCell(<<"9", "8", "%">>) => numeric.value = Some(R(98, 100))
        /\ numericCell = StrCell(<<"(", "1", ",", "2", "0", "0", ")">>) => numeric.value = Some(Whole(-1200))
        /\ numericCell = StrCell(<<"$", "4", "5", "0", ",", "0", "0", "0">>) => numeric.value = Some(Whole(450000))

\* C18 witness: a text in parentheses with currency symbol, thousands
\* separator, fraction and percent sign was parsed
C18_Witness ==
    /\ numeric.called
    /\ numericCell = StrCell(<<"(", "$", "1", ",", "2", "0", "0", ".", "2", "5", "%", ")">>)

(* Claims about the seasonal comparator, checked under SpecSeasonal *)

HasBaseline == 
    /\ seasonalArgs.metric \in {"median_price", "average_price", "sales_count",
                                "days_on_market", "active_listings"}
    /\ seasonalArgs.month \in 1..12

\* observed minus baseline, in tenths of a percentage point
DifferenceTenths ==
    LET baseline == SEASONAL_BASELINES[seasonalArgs.metric][seasonalArgs.month]
    IN  seasonalArgs.actualChange.n - (10 * baseline.n) \div baseline.d

\* C19: with a modelled baseline and a month 1-12, compareToSeasonal returns
\* above when observed minus baseline is greater than 3, below when it is
\* less than -3 and typical otherwise (exactly 3 or -3 is typical); without a
\* modelled baseline, or with a month outside 1-12, it returns typical and
\* getSeasonalContext returns the empty string
C19_SeasonalBand ==
    /\ (comparison.called /\ HasBaseline /\ seasonalArgs.actualChange.d = 10) =>
           comparison.value = (IF DifferenceTenths > 30 THEN "above"
                               ELSE IF DifferenceTenths < -30 THEN "below"
                               ELSE "typical")
    /\ (comparison.called /\ ~HasBaseline) => comparison.value = "typical"
    /\ (seasonalContext.called /\ ~HasBaseline) => seasonalContext.text = <<>>
    /\ (seasonalContext.called /\ HasBaseline) => seasonalContext.text # <<>>

\* C19 witness: an observation exactly 3 points above its baseline was
\* compared, and so was a metric without a baseline
C19_Witness ==
    /\ comparison.called
    /\ seasonalContext.called
    /\ HasBaseline
    /\ seasonalArgs.actualChange.d = 10
    /\ DifferenceTenths = 30
    /\ comparison.value = "typical"

(* Claims about the insight synthesizer, checked under SpecInsights *)

\* the ids of the insights returned
BundleIds == {insightBundle.insights[i].id : i \in 1..Len(insightBundle.insights)}

\* what the latest period records for a metric
LatestRecorded(metricTypeId) ==
    insightCtx[1].metricsByDate[insightCtx[1].latestDate][metricTypeId]

\* the median price recorded at the date taken for a year before the latest
MedianLastYear ==
    LET priorYearDate == shiftYear(insightCtx[1].latestDate, -1, insightCtx[1].utcOffset)
    IN  IF priorYearDate \in DOMAIN insightCtx[1].metricsByDate
        THEN insightCtx[1].metricsByDate[priorYearDate].median_price
        ELSE None

\* a percent change from last year's median exists: both medians are
\* recorded and last year's is not 0
MedianYoYAvailable ==
    /\ LatestRecorded("median_price") # None
    /\ MedianLastYear # None
    /\ MedianLastYear[1].n # 0

\* C20: the bundle's first element is a market-condition insight and no
\* other element is one; the price insight is present iff the median price
\* and its year-over-year change are available, the inventory insight iff
\* active listings is available, the velocity insight iff sales count or
\* days on market is available; the bundle is never empty
C20_MissingInputSuppressesOnlyItsInsight ==
    insightBundle.called =>
        /\ Len(insightBundle.insights) >= 1
        /\ insightBundle.insights[1].category = "market_condition"
        /\ \A i \in 2..Len(insightBundle.insights) :
               insightBundle.insights[i].category # "market_condition"
        /\ \A i, j \in 1..Len(insightBundle.insights) :
               insightBundle.insights[i].id = insightBundle.insights[j].id => i = j
        /\ "price-trend" \in BundleIds <=> MedianYoYAvailable
        /\ "inventory" \in BundleIds <=> LatestRecorded("active_listings") # None
        /\ "velocity" \in BundleIds <=>
               (LatestRecorded("sales_count") # None \/ LatestRecorded("days_on_market") # None)

\* C20 witness: without an active-listings figure and without a sales count
\* the bundle has the market-condition, price and velocity insights and no
\* inventory insight
C20_Witness ==
    /\ insightBundle.called
    /\ LatestRecorded("active_listings") = None
    /\ LatestRecorded("sales_count") = None
    /\ BundleIds = {"market-condition", "price-trend", "velocity"}

\* the gap between average and median price is more than 5% of the median
\* (both recorded, whole numbers)
SpreadExceedsFivePercent ==
    /\ LatestRecorded("average_price") # None
    /\ LatestRecorded("median_price") # None
    /\ LET gap == LatestRecorded("average_price")[1].n - LatestRecorded("median_price")[1].n
       IN  100 * (IF gap < 0 THEN -gap ELSE gap) > 5 * LatestRecorded("median_price")[1].n

\* C21: the price-spread insight is emitted only when the gap between average
\* and median price exceeds 5% of the median price; with a gap of 5% of the
\* median or less, or with either price missing, the bundle has no
\* price-spread insight
C21_SpreadAboveFivePercent ==
    (insightBundle.called /\ "price-spread" \in BundleIds) => SpreadExceedsFivePercent

(* Claims about repeated calls, checked under SpecExtractTwice *)

\* C22: two calls of extract on the same input return the same result,
\* independent of when the call is made and of any earlier call
C22_ExtractDeterministic ==
    (result # NotCalled /\ resultAgain # NotCalled) => resultAgain = result

(* Claims about peaks and troughs, checked under SpecInflectionFine *)

\* point p is the peak of interior index i of the date-sorted series s:
\* strictly above both neighbours, magnitude the smaller of the two rises,
\* each in percent of the neighbour, and at least 5
IsPeakAt(s, i, p) ==
    /\ p.date = s[i].date
    /\ p.value = s[i].value
    /\ s[i].value > s[i - 1].value
    /\ s[i].value > s[i + 1].value
    /\ p.magnitude = Min(Percent(s[i].value - s[i - 1].value, s[i - 1].value),
                         Percent(s[i].value - s[i + 1].value, s[i + 1].value))
    /\ Le(Whole(5), p.magnitude)

\* point p is the trough of interior index i: strictly below both
\* neighbours, magnitude the smaller of the two drops, each in percent of the
\* trough's value, and at least 5
IsTroughAt(s, i, p) ==
    /\ p.date = s[i].date
    /\ p.value = s[i].value
    /\ s[i].value < s[i - 1].value
    /\ s[i].value < s[i + 1].value
    /\ p.magnitude = Min(Percent(s[i - 1].value - s[i].value, s[i].value),
                         Percent(s[i + 1].value - s[i].value, s[i].value))
    /\ Le(Whole(5), p.magnitude)

StrictlyMonotonic(s) ==
    \/ \A i \in 1..Len(s) - 1 : s[i].value < s[i + 1].value
    \/ \A i \in 1..Len(s) - 1 : s[i].value > s[i + 1].value

\* C23: every reported peak lies at an interior point of the date-sorted
\* series strictly greater than both neighbours, every reported trough at one
\* strictly less than both, each with a magnitude (the smaller of its two
\* adjacent percent deltas) of at least 5; a strictly monotonic series
\* yields no peak and no trough
C23_ExtremaAreStrictAndSignificant ==
    inflections.called =>
        LET s == sortByDate(data)
            pts == inflections.points
        IN  /\ \A k \in 1..Len(pts) :
                   /\ pts[k].type = "peak" => \E i \in 2..Len(s) - 1 : IsPeakAt(s, i, pts[k])
                   /\ pts[k].type = "trough" => \E i \in 2..Len(s) - 1 : IsTroughAt(s, i, pts[k])
            /\ StrictlyMonotonic(s) =>
                   \A k \in 1..Len(pts) : pts[k].type \notin {"peak", "trough"}

\* C23 witness: a series with a 3% bump and a 5% bump, of which only the
\* 5% one is reported as a peak
C23_Witness ==
    /\ inflections.called
    /\ \E i \in 2..Len(data) - 1 :
           data[i - 1].value = 100 /\ data[i].value = 103 /\ data[i + 1].value = 100
    /\ \E k \in 1..Len(inflections.points) :
           inflections.points[k].type = "peak" /\ inflections.points[k].value = 105
    /\ \A k \in 1..Len(inflections.points) : inflections.points[k].value # 103

(* Claims about the momentum detector, checked under SpecInflection *)

\* percent change from value a to value b, 0 from a start of 0
ChangeFromTo(a, b) == IF a = 0 THEN Whole(0) ELSE Percent(b - a, a)

\* the difference the momentum detector looks at for (1-based) index i: the
\* change from i to i+2 less the change from i-3 to i-1
MomentumDifference(s, i) ==
    Sub(ChangeFromTo(s[i].value, s[i + 2].value), ChangeFromTo(s[i - 3].value, s[i - 1].value))

\* C24: for each index i of the sorted series with three points before it and
\* two after, the momentum detector yields a candidate at i exactly when the
\* absolute difference of the two percent changes exceeds 5: acceleration
\* when the difference is positive, deceleration when negative, with
\* magnitude equal to the absolute difference; a difference of 5 or less
\* yields no candidate
C24_MomentumShiftExceedsFive ==
    inflections.called =>
        LET s == sortByDate(data)
        IN  \A i \in 4..Len(s) - 2 :
                LET diff == MomentumDifference(s, i)
                IN  IF Lt(Whole(5), Abs(diff))
                    THEN momentumAt(s, i) =
                             <<[date |-> s[i].date, value |-> s[i].value,
                                type |-> IF Lt(Whole(0), diff) THEN "acceleration"
                                         ELSE "deceleration",
                                magnitude |-> Abs(diff)]>>
                    ELSE momentumAt(s, i) = <<>>

(* Claims about header-row discovery, checked under SpecExtract *)

\* one of the first 10 rows, read as a header row, has a metric column
SomeRowHasMetricHeader ==
    \E i \in 1..Len(workbook.rows) :
        /\ i <= 10
        /\ Len(mapHeaders(candidateHeaders(workbook.rows[i])).headerMap) > 0

\* C25: whenever at least one of the first 10 rows of a sheet contains a
\* header that maps to a metric, extraction does not fail with the 'No
\* recognizable metric columns' error
C25_MetricHeaderRowFound ==
    (result.called /\ workbook.hasSheet /\ SomeRowHasMetricHeader) =>
        \A i \in 1..Len(result.errors) :
            result.errors[i] # "No recognizable metric columns found"

\* the latest period gives the classifier a months-of-supply signal: active
\* listings and a sales count above 0
SupplySignalGiven ==
    /\ LatestRecorded("active_listings") # None
    /\ LatestRecorded("sales_count") # None
    /\ LatestRecorded("sales_count")[1].n > 0

\* at least one of the four signals is supplied to the classifier
SomeSignalGiven ==
    \/ SupplySignalGiven
    \/ LatestRecorded("days_on_market") # None
    \/ LatestRecorded("list_to_sale_ratio") # None
    \/ MedianYoYAvailable

\* C26: whenever at least one signal is supplied to the classifier, the
\* market-condition insight's context sentence cites at least one factor
\* description; it is never the empty 'Based on .' sentence, also when the
\* condition is balanced because sellers and buyers signals offset each other
C26_ContextCitesAFactor ==
    (insightBundle.called /\ SomeSignalGiven) =>
        insightBundle.insights[1].context[2] # <<>>

\* C27: the classification returned by getMarketClassification (the dashboard
\* badge) has the same condition and confidence as the classification behind
\* the headline of the market-condition insight of the same context
C27_BadgeMatchesInsight ==
    (insightBundle.called /\ badge.called) =>
        insightBundle.insights[1].headline =
            <<getConditionLabel(badge.condition), badge.confidence>>

\* C27 witness: badge and insight were computed for a context whose signals
\* include a year-over-year price change, and the condition is not balanced
C27_Witness ==
    /\ insightBundle.called
    /\ badge.called
    /\ MedianYoYAvailable
    /\ Len(badge.factors) > 1
    /\ badge.condition # "balanced"

\* the signals the classifier is to get for the context: months of supply
\* only with active listings and a sales count above 0, the price change
\* only with both medians and last year's not 0
SignalsDue ==
    [monthsOfSupply |->
         IF SupplySignalGiven
         THEN Some(Div(LatestRecorded("active_listings")[1], LatestRecorded("sales_count")[1]))
         ELSE None,
     daysOnMarket |-> LatestRecorded("days_on_market"),
     listToSaleRatio |-> LatestRecorded("list_to_sale_ratio"),
     priceYoYChange |->
         IF MedianYoYAvailable
         THEN calculatePercentChange(LatestRecorded("median_price")[1], MedianLastYear[1])
         ELSE None]

\* the metric labels of the badge's factors
BadgeFactors == {badge.factors[i].metric : i \in 1..Len(badge.factors)}

\* C28: when the latest period's sales count is zero or missing, or active
\* listings is missing, the months-of-supply signal is left out of the
\* classification (no factor, no weight) rather than computed by a division
\* by zero; a prior-year median price of zero leaves out the price-change
\* signal
C28_UndefinedSignalsLeftOut ==
    /\ insightBundle.called =>
           LET due == classifyMarket(SignalsDue)
           IN  insightBundle.insights[1].headline =
                   <<getConditionLabel(due.condition), due.confidence>>
    /\ badge.called =>
           /\ badge.factors = classifyMarket(SignalsDue).factors
           /\ ~SupplySignalGiven => "Months of Supply" \notin BadgeFactors
           /\ MedianLastYear = Some(Whole(0)) => "Price YoY Change" \notin BadgeFactors

\* C28 witness: active listings with a sales count of 0 and a prior-year
\* median of 0, classified from the remaining signals
C28_Witness ==
    /\ badge.called
    /\ LatestRecorded("active_listings") # None
    /\ LatestRecorded("sales_count") = Some(Whole(0))
    /\ LatestRecorded("median_price") # None
    /\ MedianLastYear = Some(Whole(0))
    /\ Len(badge.factors) > 0

----------------------------------------------------------------------------
(* Claims about saving metrics, checked under SpecSave *)

\* the keys of the rows of a save
KeysOf(rows) == {keyOf(rows[i]) : i \in 1..Len(rows)}

\* the stored rows of a key
RowsAt(table, key) == {r \in table : keyOf(r) = key}

\* C29: after any sequence of successful import and manual-entry saves the
\* metrics table holds at most one row per (user, metric type, recorded
\* date); a save leaves for each key it contains exactly its own row (value
\* and manual/imported flag), and changes no row of a key it does not contain
C29_UpsertOneRowPerKey ==
    [][/\ \A r, q \in metricsTable' : keyOf(r) = keyOf(q) => r = q
       /\ (metricsTable' # metricsTable \/ upserted' # upserted) =>
              /\ saveResponse'.status = 200
              /\ \A i \in 1..Len(upserted') :
                     RowsAt(metricsTable', keyOf(upserted'[i])) = {upserted'[i]}
              /\ \A r \in metricsTable \cup metricsTable' :
                     keyOf(r) \notin KeysOf(upserted') =>
                         RowsAt(metricsTable', keyOf(r)) = RowsAt(metricsTable, keyOf(r))]_vars

\* C29 witness: a manual entry has replaced an imported row (the stored row
\* of its key is the manually entered one) next to an imported row of a key
\* the manual entry did not contain
C29_Witness ==
    /\ saveResponse # NotCalled
    /\ saveResponse.status = 200
    /\ upserted # <<>>
    /\ upserted[1].is_manually_entered
    /\ upserted[1].recorded_date = <<"2", "0", "2", "4", "-", "0", "1", "-", "0", "1">>
    /\ upserted[1] \in metricsTable
    /\ \E r \in metricsTable :
           /\ ~r.is_manually_entered
           /\ keyOf(r) \notin KeysOf(upserted)
    /\ Len(generations) > 0

----------------------------------------------------------------------------
(* Claims about the cached AI insights, checked under SpecImports *)

\* the ai_insights table holding what is computed from the stored metrics
CacheOf(table) ==
    upsertInsights({}, insightsAbout(summaryOf(recentMetrics(table, Today))))

\* C30: when two imports were saved one after the other and both background
\* generations have completed and cached their insights, the cached insights
\* are the ones computed from the metrics as stored after the later import
C30_CacheFromLaterImport ==
    (/\ Len(generations) = MaxImports
     /\ \A g \in 1..Len(generations) : generations[g].pc = "done" /\ generations[g].wrote)
        => aiInsights = CacheOf(metricsTable)

====
